---- MODULE Spec2Model ----
(***************************************************************************)
(* Verification model of the data-analyst backend:                         *)
(*   - AnalysisRuntime._select_primary_probe (evidence re-validation),     *)
(*   - AnalysisRuntime._run_multi_step_exploration / run_analysis          *)
(*     (the exploration pipeline with its thread-pool fan-out),            *)
(*   - DataService session registry (upload, access, delete, TTL, LRU).    *)
(* Each subsystem has its own specification over the shared variables.     *)
(***************************************************************************)
EXTENDS Integers, Sequences, FiniteSets, TLC

VARIABLES
    \* ---- harness of _select_primary_probe
    sel_executed,      \* executed_probes handed to _select_primary_probe
    sel_requested,     \* requested_probe_id of the last call (0: no call yet)
    sel_result,        \* what the last call returned / raised
    \* ---- one exploration run (run_analysis, sprint_mode = False)
    pc,                \* position of the thread running run_analysis
    plan,              \* plan["probes"]: the planned probe ids, in plan order
    submitted,         \* number of probes handed to executor.submit so far
    task,              \* probe id -> "none" | "queued" | "running" | "ok" | "raised"
    outcome,           \* probe id -> the ProbeResult execute_probe returned
    done_order,        \* ids of finished futures, in order of completion
    snap,              \* number of futures already finished when as_completed began
    yielded,           \* ids of the futures as_completed has yielded, in order
    completed_by_id,   \* the dict of line 339, as its items in insertion order
    gather_order,      \* whether the futures were yielded in plan order (history)
    executed_probes,   \* the list of line 375
    persisted,         \* artifacts handed to persist_analysis_artifacts (per call)
    store,             \* behaviour of the durable summary store in this run
    synthesis_input,   \* what synthesize_exploration was called with (per call)
    synthesis,         \* the normalized synthesis the oracle returned
    primary_probe,     \* the probe _select_primary_probe returned
    rendered,          \* the dict _run_multi_step_exploration returns
    result,            \* the dict run_analysis returns (NoResult until DONE)
    error,             \* the error run_analysis raised (NoError if none)
    steps,             \* the pipeline steps entered so far, in order
    \* ---- DataService session registry
    sessions,          \* self.sessions: its entries [sid, connection,
                       \* last_accessed_at] in dict (insertion) order
    conns,             \* every connection duckdb.connect returned, in order:
                       \* [open, closes (number of close() calls)]
    now,               \* the clock read by datetime.now()
    last_op,           \* record of the last DataService operation
    \* ---- harness of validate_sql / execute_safe_query
    sql,               \* the statement text, as its tokens
    sql_out,           \* what execute_safe_query did with it
    \* ---- harness of _normalize_exploration_plan
    raw_plan,          \* the probes of the planning oracle's output
    plan_out,          \* what _normalize_exploration_plan returned / raised
    \* ---- one POST /analysis-sprint request (run_analysis_sprint)
    sp_pc,             \* position of the handler
    sp_questions,      \* request.questions
    sp_cleaned,        \* cleaned_questions
    sp_results,        \* results: the questions whose analysis returned
    sp_failures,       \* failures: the questions whose analysis raised
    sp_response,       \* the response body (NoResponse until returned)
    \* ---- harness of build_trust_layer
    trust_call,        \* the arguments and the result of the call
    \* ---- harness of aggregate_categories
    agg_data,          \* data: the rows, as [x, y]
    agg_out,           \* max_points and the result of the call
    \* ---- harness of normalize_chart_config
    cfg_data,          \* data: the row set, as its columns
    cfg_out,           \* the base config, its normal form, and that normalized again
    cfg_render,         \* the arguments and the chart options of _render_chart_payload
    \* ---- harness of detect_anomalies
    anom_data,         \* data_frame: the rows, as batches of equal rows
    anom_out,           \* group_by and the outcome of the call
    \* ---- analyze_data_stream: the producer, the run thread and the consumer
    st_producer,       \* producer_task: "created", "awaiting", "cancelling", ...
    st_pc,             \* position of the run thread inside run_analysis
    st_plan,           \* number of probes of the plan
    st_task,           \* probe id -> state of its future in the executor
    st_gathered,       \* probe ids yielded by as_completed
    st_emitted,        \* history: every progress_callback call, with its thread
    st_ready,          \* callbacks handed to the loop with call_soon_threadsafe
    st_queue,          \* the asyncio.Queue
    st_delivered,      \* history: the items the event generator yielded
    st_consumer,        \* "reading", "abandoned" or "finished"
    \* ---- the worker threads of one run inside _get_session_connection
    th_sessions,       \* self.sessions, shared by the threads
    th_conns,          \* the connections, with the number of close() calls
    th_pc,             \* thread -> its position in execute_query
    th_expired,        \* thread -> the rest of its local list `expired`
    th_error,           \* thread -> the exception its probe ended with
    \* ---- harness of sample_evenly
    smp_data,          \* data: the rows
    smp_out,            \* max_points and the result of the call
    \* ---- the action workflow of one session (main.py)
    act_store,         \* session_action_workflows[session_id]: action_id -> record
    act_next,          \* the next fresh action_id (uuid4 never repeats)
    act_runs,          \* history: how often execute_action ran for each action_id
    act_approvals,     \* history: number of approve requests so far
    act_resp           \* the last approve request and its response

selVars == <<sel_executed, sel_requested, sel_result>>
runVars == <<pc, plan, submitted, task, outcome, done_order, snap, yielded,
             completed_by_id, gather_order, executed_probes, persisted, store, synthesis_input,
             synthesis, primary_probe, rendered, result, error, steps>>
dsVars == <<sessions, conns, now, last_op>>
sqlVars == <<sql, sql_out>>
planVars == <<raw_plan, plan_out>>
sprintVars == <<sp_pc, sp_questions, sp_cleaned, sp_results, sp_failures, sp_response>>
trustVars == <<trust_call>>
aggVars == <<agg_data, agg_out>>
cfgVars == <<cfg_data, cfg_out, cfg_render>>
anomVars == <<anom_data, anom_out>>
streamVars == <<st_producer, st_pc, st_plan, st_task, st_gathered, st_emitted, st_ready, st_queue, st_delivered, st_consumer>>
threadVars == <<th_sessions, th_conns, th_pc, th_expired, th_error>>
sampleVars == <<smp_data, smp_out>>
actionVars == <<act_store, act_next, act_runs, act_approvals, act_resp>>
vars == <<selVars, runVars, dsVars, sqlVars, planVars, sprintVars, trustVars, aggVars,
          cfgVars,
          anomVars,
          streamVars,
          threadVars,
          sampleVars,
          actionVars>>
\* the variables each subsystem leaves alone
notSel == <<runVars, dsVars, sqlVars, planVars, sprintVars, trustVars, aggVars, cfgVars,
    anomVars,
    streamVars,
    threadVars,
    sampleVars,
    actionVars>>
notRun == <<selVars, dsVars, sqlVars, planVars, sprintVars, trustVars, aggVars, cfgVars,
    anomVars,
    streamVars,
    threadVars,
    sampleVars,
    actionVars>>
notDs == <<selVars, runVars, sqlVars, planVars, sprintVars, trustVars, aggVars, cfgVars,
    anomVars,
    streamVars,
    threadVars,
    sampleVars,
    actionVars>>
notSql == <<selVars, runVars, dsVars, planVars, sprintVars, trustVars, aggVars, cfgVars,
    anomVars,
    streamVars,
    threadVars,
    sampleVars,
    actionVars>>
notPlan == <<selVars, runVars, dsVars, sqlVars, sprintVars, trustVars, aggVars, cfgVars,
    anomVars,
    streamVars,
    threadVars,
    sampleVars,
    actionVars>>
notSprint == <<selVars, runVars, dsVars, sqlVars, planVars, trustVars, aggVars, cfgVars,
    anomVars,
    streamVars,
    threadVars,
    sampleVars,
    actionVars>>
notTrust == <<selVars, runVars, dsVars, sqlVars, planVars, sprintVars, aggVars, cfgVars,
    anomVars,
    streamVars,
    threadVars,
    sampleVars,
    actionVars>>
notAgg == <<selVars, runVars, dsVars, sqlVars, planVars, sprintVars, trustVars, cfgVars,
    anomVars,
    streamVars,
    threadVars,
    sampleVars,
    actionVars>>
notCfg == <<selVars, runVars, dsVars, sqlVars, planVars, sprintVars, trustVars, aggVars,
    anomVars,
    streamVars,
    threadVars,
    sampleVars,
    actionVars>>
notAnom == <<selVars, runVars, dsVars, sqlVars, planVars, sprintVars, trustVars, aggVars, cfgVars,
    streamVars,
    threadVars,
    sampleVars,
    actionVars>>
notStream == <<selVars, runVars, dsVars, sqlVars, planVars, sprintVars, trustVars, aggVars, cfgVars, anomVars,
    threadVars,
    sampleVars,
    actionVars>>
notThread == <<selVars, runVars, dsVars, sqlVars, planVars, sprintVars, trustVars, aggVars, cfgVars, anomVars, streamVars,
    sampleVars,
    actionVars>>
notSample == <<selVars, runVars, dsVars, sqlVars, planVars, sprintVars, trustVars, aggVars, cfgVars, anomVars, streamVars, threadVars,
    actionVars>>
notAction == <<selVars, runVars, dsVars, sqlVars, planVars, sprintVars, trustVars, aggVars, cfgVars, anomVars, streamVars, threadVars, sampleVars>>

\* ------------------------------------------------------------------------
\* Program constants
\* ------------------------------------------------------------------------
MIN_STRONG_PRIMARY_ROWS == 12
MAX_EXPLORATION_PROBES == 5
MAX_PIE_POINTS == 12
\* limitations kept by _normalize_exploration_synthesis ([:5]) and by
\* run_analysis (base_limitations[:8])
MAX_SYNTHESIS_LIMITATIONS == 5
MAX_TRUST_LIMITATIONS == 8

\* ------------------------------------------------------------------------
\* Bounds of the model
\* ------------------------------------------------------------------------
\* longest executed-probe list handed to the _select_primary_probe harness
MaxSelProbes == 3
\* longest plan the planning oracle returns in the model
MaxPlanLen == 3
\* most limitations the synthesis oracle returns in the model
MaxOracleLimitations == 6
\* longest statement typed token by token, the largest max_rows and the largest
\* table of the query-engine model
MaxSqlLen == 4
\* most probes in the planning oracle's raw output
MaxRawPlanLen == 3
\* most questions in a sprint request
MaxSprintQuestions == 3
\* most numeric columns in a dataset profile
MaxNumericColumns == 2
\* most rows handed to aggregate_categories, and the largest max_points
MaxAggRows == 4
MaxAggPoints == 2
\* most columns of the row set handed to normalize_chart_config
MaxColumns == 3
\* most batches of rows in the data frame handed to detect_anomalies
MaxRowBatches == 3
\* most probes of the plan of a streamed exploration
MaxStreamProbes == 3
\* most rows handed to sample_evenly, and the largest max_points
MaxSampleRows == 5
MaxSamplePoints == 3
\* action ids a run hands out, and the approve requests it sends
MaxActionIds == 9
MaxApprovals == 5
MaxQueryCap == 3
MaxTableRows == 4
\* DataService(session_ttl_minutes, max_sessions) as constructed in the model
SessionTTL == 2
MaxSessions == 2
\* rows of a file that uploads, and the max_rows of the queries run on sessions
UploadedRows == 3
SessionQueryCap == 2
\* number of upload_file calls and the last clock reading in the model
MaxUploads == 3
MaxTime == 4
\* ANALYSIS_PROBE_MAX_WORKERS as configured in the model (the default is 4):
\* a pool smaller than the plan makes probes wait in the executor's queue
PROBE_MAX_WORKERS == 2

Min(a, b) == IF a <= b THEN a ELSE b

\* Python's None
None == [probe_id |-> 0, row_count |-> 0, chart_rows |-> 0, unique_x |-> 0]

\* ------------------------------------------------------------------------
\* ProbeResult as _select_primary_probe and the trust layer read it:
\*   row_count  = len(query_data)
\*   chart_rows = len(chart_data), chart_data = optimize_data_for_chart(query_data, ..)
\*   unique_x   = distinct non-null x values in chart_data
\* optimize_data_for_chart samples or aggregates the rows, so it never returns more
\* rows than it was given, and unique_x counts values of chart_data rows.
\* ------------------------------------------------------------------------
RowChoices == {0, 2, 11, 12, 600}
ChartChoices(rows) == {0, Min(rows, 300)}
UniqueXChoices(chart) == {0, Min(chart, 120)}

ProbeResults(id) ==
    { [probe_id |-> id, row_count |-> r, chart_rows |-> c, unique_x |-> u] :
        <<r, c, u>> \in { t \in RowChoices \X {0, 2, 11, 12, 300} \X {0, 2, 11, 12, 120} :
                            /\ t[2] \in ChartChoices(t[1])
                            /\ t[3] \in UniqueXChoices(t[2]) } }

\* ------------------------------------------------------------------------
\* AnalysisRuntime._select_primary_probe
\* ------------------------------------------------------------------------
\* evidence_score, doubled so that the 0.5 and 1.5 weights stay integral:
\*   2*score = 2*min(row_count,500) + min(chart_rows,300) + 3*min(unique_x,120)
\*             - 320 if row_count <= 2, - 120 elif row_count < 12
evidence_score(probe) ==
    LET base == 2 * Min(probe.row_count, 500) + Min(probe.chart_rows, 300)
                + 3 * Min(probe.unique_x, 120)
    IN  IF probe.row_count <= 2 THEN base - 320
        ELSE IF probe.row_count < MIN_STRONG_PRIMARY_ROWS THEN base - 120
        ELSE base

\* by_id = {probe["probe_id"]: probe for probe in executed}; by_id.get(id):
\* a later probe with the same id overwrites an earlier one
by_id_get(executed, id) ==
    LET hits == { i \in 1..Len(executed) : executed[i].probe_id = id }
    IN  IF hits = {} THEN None
        ELSE executed[CHOOSE i \in hits : \A j \in hits : j <= i]

\* max(executed_probes, key=evidence_score): the first probe of maximal score
strongest_of(executed) ==
    LET best == CHOOSE i \in 1..Len(executed) :
                    /\ \A j \in 1..Len(executed) :
                          evidence_score(executed[j]) <= evidence_score(executed[i])
                    /\ \A j \in 1..(i - 1) :
                          evidence_score(executed[j]) < evidence_score(executed[i])
    IN  executed[best]

\* A plausible slip: the "preferred is None" early return is missing
select_primary_probe_no_none_check(requested_probe_id, executed) ==
    LET preferred == by_id_get(executed, requested_probe_id)
        strongest == strongest_of(executed)
    IN  IF preferred.row_count = 0 /\ strongest.row_count > 0 THEN strongest
        ELSE IF /\ preferred.row_count < MIN_STRONG_PRIMARY_ROWS
                /\ strongest.row_count >= MIN_STRONG_PRIMARY_ROWS
                /\ evidence_score(strongest) >= evidence_score(preferred) + 40
             THEN strongest
        ELSE preferred

\* A plausible slip: the weak-versus-strong switch is missing
select_primary_probe_no_weak_switch(requested_probe_id, executed) ==
    LET preferred == by_id_get(executed, requested_probe_id)
        strongest == strongest_of(executed)
    IN  IF preferred = None THEN strongest
        ELSE IF preferred.row_count = 0 /\ strongest.row_count > 0 THEN strongest
        ELSE preferred

\* A plausible slip: the switch fires whenever the requested probe is outscored
select_primary_probe_always_strongest(requested_probe_id, executed) ==
    LET preferred == by_id_get(executed, requested_probe_id)
        strongest == strongest_of(executed)
    IN  IF preferred = None THEN strongest
        ELSE IF evidence_score(strongest) >= evidence_score(preferred) + 40
             THEN strongest
        ELSE preferred

\* A plausible slip: the zero-row switch is missing
select_primary_probe_no_zero_switch(requested_probe_id, executed) ==
    LET preferred == by_id_get(executed, requested_probe_id)
        strongest == strongest_of(executed)
    IN  IF preferred = None THEN strongest
        ELSE IF /\ preferred.row_count < MIN_STRONG_PRIMARY_ROWS
                /\ preferred.row_count > 0
                /\ strongest.row_count >= MIN_STRONG_PRIMARY_ROWS
                /\ evidence_score(strongest) >= evidence_score(preferred) + 40
             THEN strongest
        ELSE preferred

\* lines 193-234 (the caller has checked that executed is not empty)
_select_primary_probe(requested_probe_id, executed) ==
    LET preferred == by_id_get(executed, requested_probe_id)
        strongest == strongest_of(executed)
    IN  IF preferred = None THEN strongest
        ELSE IF preferred.row_count = 0 /\ strongest.row_count > 0 THEN strongest
        ELSE IF /\ preferred.row_count < MIN_STRONG_PRIMARY_ROWS
                /\ strongest.row_count >= MIN_STRONG_PRIMARY_ROWS
                /\ evidence_score(strongest) >= evidence_score(preferred) + 40
             THEN strongest
        ELSE preferred

\* ------------------------------------------------------------------------
\* Harness: _select_primary_probe called on any executed-probe list
\* ------------------------------------------------------------------------
NoError == [kind |-> "none", probe_id |-> 0]
NoSynthesis == [primary_probe_id |-> 0, analysis_type |-> "none", limitations |-> <<>>]
NoResult ==
    [primary_probe_id |-> 0, row_count |-> 0, visualized_row_count |-> 0,
     analysis_type |-> "none", chart_type |-> "none", exploration_probes |-> <<>>,
     limitations |-> <<>>]

RunIdle ==
    /\ pc = "idle" /\ plan = <<>> /\ submitted = 0
    /\ task = <<>> /\ outcome = <<>> /\ done_order = <<>> /\ snap = 0
    /\ yielded = <<>>
    /\ completed_by_id = <<>> /\ gather_order = "none"
    /\ executed_probes = <<>> /\ persisted = <<>>
    /\ store = "unused" /\ synthesis_input = <<>> /\ synthesis = NoSynthesis
    /\ primary_probe = None /\ rendered = NoResult /\ result = NoResult
    /\ error = NoError /\ steps = <<>>

NoOp == [op |-> "none", sid |-> 0, ok |-> TRUE, error |-> "none", evicted |-> {},
         run_id |-> 0, artifacts |-> <<>>, replaced |-> 0, returned |-> <<>>]

DsIdle ==
    /\ sessions = <<>> /\ conns = <<>> /\ now = 0 /\ last_op = NoOp

SelIdle ==
    /\ sel_executed = <<>> /\ sel_requested = 0 /\ sel_result = None

NoSqlOut == [status |-> "idle", max_rows |-> 0, table_rows |-> 0, rows |-> 0,
             sent |-> <<>>]

SqlIdle ==
    /\ sql = <<>> /\ sql_out = NoSqlOut

NoPlanOut == [status |-> "idle", probes |-> <<>>, max_probes |-> 0]

PlanIdle ==
    /\ raw_plan = <<>> /\ plan_out = NoPlanOut

SprintIdle ==
    /\ sp_pc = "idle" /\ sp_questions = <<>> /\ sp_cleaned = <<>>
    /\ sp_results = <<>> /\ sp_failures = <<>>
    /\ sp_response = [question_count |-> 0, completed_count |-> 0, failed_count |-> 0,
                      results |-> <<>>, failures |-> <<>>]

NoTrustCall == [called |-> FALSE, row_count |-> 0, visualized_row_count |-> 0,
                analysis_type |-> "none", question_causal |-> FALSE,
                trust |-> [confidence_score |-> 0, limitations |-> <<>>]]

TrustIdle == trust_call = NoTrustCall

NoAggOut == [called |-> FALSE, max_points |-> 0, result |-> <<>>]

AggIdle == agg_data = <<>> /\ agg_out = NoAggOut

NoCfg == [type |-> "none", xKey |-> "", yKey |-> "", groupBy |-> ""]
NoCfgOut == [called |-> FALSE, base |-> NoCfg, once |-> NoCfg, twice |-> NoCfg]

NoRender == [called |-> FALSE, base |-> NoCfg, analysis_type |-> "none", chart_options |-> <<>>]

CfgIdle == cfg_data = <<>> /\ cfg_out = NoCfgOut /\ cfg_render = NoRender

NoAnomOut == [called |-> FALSE, group_by |-> FALSE, error |-> "none", rows_analyzed |-> 0]

AnomIdle == anom_data = <<>> /\ anom_out = NoAnomOut

StreamIdle ==
    /\ st_producer = "created" /\ st_pc = "not_started" /\ st_plan = 0
    /\ st_task = <<>> /\ st_gathered = {} /\ st_emitted = <<>>
    /\ st_ready = <<>> /\ st_queue = <<>> /\ st_delivered = <<>>
    /\ st_consumer = "reading"

ThreadIdle ==
    /\ th_sessions = <<>> /\ th_conns = <<>> /\ th_pc = <<>>
    /\ th_expired = <<>> /\ th_error = <<>>

NoSampleOut == [called |-> FALSE, max_points |-> 0, result |-> <<>>]

SampleIdle == smp_data = <<>> /\ smp_out = NoSampleOut

NoAction == [type |-> "none", status |-> "absent", execution |-> "none"]

NoApproval == [kind |-> "none", action_id |-> 0, before |-> "absent", ran |-> FALSE, execution |-> "none"]

ActionIdle ==
    /\ act_store = [id \in 1..MaxActionIds |-> NoAction]
    /\ act_next = 1
    /\ act_runs = [id \in 1..MaxActionIds |-> 0]
    /\ act_approvals = 0
    /\ act_resp = NoApproval

\* the subsystems a specification does not exercise stay as constructed
NotSelIdle == RunIdle /\ DsIdle /\ SqlIdle /\ PlanIdle /\ SprintIdle /\ TrustIdle /\ AggIdle /\ CfgIdle
    /\ AnomIdle
    /\ StreamIdle
    /\ ThreadIdle
    /\ SampleIdle
    /\ ActionIdle
NotRunIdle == SelIdle /\ DsIdle /\ SqlIdle /\ PlanIdle /\ SprintIdle /\ TrustIdle /\ AggIdle /\ CfgIdle
    /\ AnomIdle
    /\ StreamIdle
    /\ ThreadIdle
    /\ SampleIdle
    /\ ActionIdle
NotDsIdle == SelIdle /\ RunIdle /\ SqlIdle /\ PlanIdle /\ SprintIdle /\ TrustIdle /\ AggIdle /\ CfgIdle
    /\ AnomIdle
    /\ StreamIdle
    /\ ThreadIdle
    /\ SampleIdle
    /\ ActionIdle
NotSqlIdle == SelIdle /\ RunIdle /\ DsIdle /\ PlanIdle /\ SprintIdle /\ TrustIdle /\ AggIdle /\ CfgIdle
    /\ AnomIdle
    /\ StreamIdle
    /\ ThreadIdle
    /\ SampleIdle
    /\ ActionIdle
NotPlanIdle == SelIdle /\ RunIdle /\ DsIdle /\ SqlIdle /\ SprintIdle /\ TrustIdle /\ AggIdle /\ CfgIdle
    /\ AnomIdle
    /\ StreamIdle
    /\ ThreadIdle
    /\ SampleIdle
    /\ ActionIdle
NotSprintIdle == SelIdle /\ RunIdle /\ DsIdle /\ SqlIdle /\ PlanIdle /\ TrustIdle /\ AggIdle /\ CfgIdle
    /\ AnomIdle
    /\ StreamIdle
    /\ ThreadIdle
    /\ SampleIdle
    /\ ActionIdle
NotTrustIdle == SelIdle /\ RunIdle /\ DsIdle /\ SqlIdle /\ PlanIdle /\ SprintIdle /\ AggIdle /\ CfgIdle
    /\ AnomIdle
    /\ StreamIdle
    /\ ThreadIdle
    /\ SampleIdle
    /\ ActionIdle
NotAggIdle == SelIdle /\ RunIdle /\ DsIdle /\ SqlIdle /\ PlanIdle /\ SprintIdle /\ TrustIdle /\ CfgIdle
    /\ AnomIdle
    /\ StreamIdle
    /\ ThreadIdle
    /\ SampleIdle
    /\ ActionIdle
NotCfgIdle == SelIdle /\ RunIdle /\ DsIdle /\ SqlIdle /\ PlanIdle /\ SprintIdle /\ TrustIdle /\ AggIdle
    /\ AnomIdle
    /\ StreamIdle
    /\ ThreadIdle
    /\ SampleIdle
    /\ ActionIdle
NotAnomIdle == 
    SelIdle /\ RunIdle /\ DsIdle /\ SqlIdle /\ PlanIdle
    /\ SprintIdle /\ TrustIdle /\ AggIdle /\ CfgIdle
    /\ StreamIdle
    /\ ThreadIdle
    /\ SampleIdle
    /\ ActionIdle
NotStreamIdle == 
    SelIdle /\ RunIdle /\ DsIdle /\ SqlIdle /\ PlanIdle
    /\ SprintIdle /\ TrustIdle /\ AggIdle /\ CfgIdle /\ AnomIdle
    /\ ThreadIdle
    /\ SampleIdle
    /\ ActionIdle
NotThreadIdle == 
    SelIdle /\ RunIdle /\ DsIdle /\ SqlIdle /\ PlanIdle
    /\ SprintIdle /\ TrustIdle /\ AggIdle /\ CfgIdle /\ AnomIdle /\ StreamIdle
    /\ SampleIdle
    /\ ActionIdle
NotSampleIdle == 
    SelIdle /\ RunIdle /\ DsIdle /\ SqlIdle /\ PlanIdle
    /\ SprintIdle /\ TrustIdle /\ AggIdle /\ CfgIdle /\ AnomIdle /\ StreamIdle /\ ThreadIdle
    /\ ActionIdle
NotActionIdle ==
    SelIdle /\ RunIdle /\ DsIdle /\ SqlIdle /\ PlanIdle
    /\ SprintIdle /\ TrustIdle /\ AggIdle /\ CfgIdle /\ AnomIdle /\ StreamIdle /\ ThreadIdle /\ SampleIdle

InitSelect == SelIdle /\ NotSelIdle

\* one more probe has been executed (probe ids are unique within a plan)
SelAddProbe ==
    /\ sel_requested = 0
    /\ Len(sel_executed) < MaxSelProbes
    /\ \E p \in ProbeResults(Len(sel_executed) + 1) :
          sel_executed' = Append(sel_executed, p)
    /\ UNCHANGED <<sel_requested, sel_result, notSel>>

\* _select_primary_probe(requested, executed); the requested id may be absent
SelCall ==
    /\ sel_requested = 0
    /\ sel_executed # <<>>
    /\ \E req \in 1..(Len(sel_executed) + 1) :
          /\ sel_requested' = req
          /\ sel_result' = _select_primary_probe(req, sel_executed)
    /\ UNCHANGED <<sel_executed, notSel>>

\* line 190-191: an empty list raises ValueError
SelCallEmpty ==
    /\ sel_requested = 0
    /\ sel_executed = <<>>
    /\ sel_requested' = 1
    /\ sel_result' = [None EXCEPT !.probe_id = -1]
    /\ UNCHANGED <<sel_executed, notSel>>

NextSelect == SelAddProbe \/ SelCall \/ SelCallEmpty

SpecSelect == InitSelect /\ [][NextSelect]_vars

Range(s) == { s[i] : i \in 1..Len(s) }

\* the entries of s whose index is not in idxs, in order
DropIndexes(s, idxs) ==
    LET keep == { i \in 1..Len(s) : i \notin idxs }
    IN  [k \in 1..Cardinality(keep) |->
            s[CHOOSE i \in keep : Cardinality({ j \in keep : j < i }) = k - 1]]
SelCalled == sel_requested # 0 /\ sel_executed # <<>>
SelPreferred == by_id_get(sel_executed, sel_requested)

\* C2: for every non-empty executed set and every requested id (present or not),
\* the probe returned by _select_primary_probe is a member of the executed set.
C2_SelectedIsExecuted ==
    SelCalled => sel_result \in Range(sel_executed)

\* C2 witness: a call with a requested id that is not in the executed set
C2_Witness ==
    /\ SelCalled
    /\ Len(sel_executed) >= 2
    /\ SelPreferred = None
    /\ sel_result \in Range(sel_executed)

\* C3: requested probe with < 12 rows, some other probe with >= 12 rows and an
\* evidence score at least 20 higher: the returned probe is not the requested one.
C3_WeakRequestedSwitches ==
    ( /\ SelCalled
      /\ SelPreferred # None
      /\ SelPreferred.row_count < MIN_STRONG_PRIMARY_ROWS
      /\ \E p \in Range(sel_executed) :
            /\ p.probe_id # sel_requested
            /\ p.row_count >= MIN_STRONG_PRIMARY_ROWS
            /\ evidence_score(p) >= evidence_score(SelPreferred) + 40 )
    => sel_result.probe_id # sel_requested

\* C3 witness: requested probe weak but not empty, a third probe also weak, one strong
C3_Witness ==
    /\ SelCalled
    /\ Len(sel_executed) = 3
    /\ sel_requested = 1
    /\ sel_executed[1].row_count = 2
    /\ sel_executed[2].row_count = 11
    /\ sel_executed[3].row_count = 12
    /\ sel_result.probe_id = 3

\* C4: a requested probe that is in the executed set and has >= 12 rows is returned,
\* whatever the other probes look like.
C4_StrongRequestedKept ==
    ( /\ SelCalled
      /\ SelPreferred # None
      /\ SelPreferred.row_count >= MIN_STRONG_PRIMARY_ROWS )
    => sel_result = SelPreferred

\* C4 witness: the requested probe has 12 rows and is outscored by a 600-row probe
C4_Witness ==
    /\ SelCalled
    /\ SelPreferred # None
    /\ SelPreferred.row_count = 12
    /\ \E p \in Range(sel_executed) :
          p.row_count = 600 /\ evidence_score(p) >= evidence_score(SelPreferred) + 40
    /\ sel_result = SelPreferred

\* C5: requested probe with zero rows, some other probe with rows: the returned
\* probe is not the requested one and has rows.
C5_ZeroRowRequestedSwitches ==
    ( /\ SelCalled
      /\ SelPreferred # None
      /\ SelPreferred.row_count = 0
      /\ \E p \in Range(sel_executed) :
            p.probe_id # sel_requested /\ p.row_count > 0 )
    => /\ sel_result.probe_id # sel_requested
       /\ sel_result.row_count > 0

\* C5 witness: zero-row requested probe, the only other probes are sparse (<= 2 rows)
\* or empty as well
C5_Witness ==
    /\ SelCalled
    /\ Len(sel_executed) = 3
    /\ sel_requested = 1
    /\ sel_executed[1].row_count = 0
    /\ sel_executed[2].row_count = 0
    /\ sel_executed[3].row_count = 2
    /\ sel_result.probe_id = 3

\* ========================================================================
\* One exploration run: run_analysis(sprint_mode = False)
\* ========================================================================
Take(s, n) == SubSeq(s, 1, Min(n, Len(s)))
Ids(s) == [i \in 1..Len(s) |-> s[i].probe_id]
IsInjective(s) == \A i, j \in 1..Len(s) : s[i] = s[j] => i = j

\* the rows a probe of the run may return
RunRowChoices == {0, 12, 600}
RunResults(id) ==
    { p \in ProbeResults(id) :
        /\ p.row_count \in RunRowChoices
        /\ p.chart_rows = Min(p.row_count, 300)
        /\ p.unique_x = Min(p.chart_rows, 120) }

\* what the planning oracle may return: the probe ids in plan order
Ascending(n) == [i \in 1..n |-> i]
Descending(n) == [i \in 1..n |-> n + 1 - i]
Repeated(n) == [i \in 1..n |-> 1]
OraclePlans ==
    UNION { {Ascending(n), Descending(n), Repeated(n)} : n \in 1..MaxPlanLen }

\* _normalize_exploration_plan: the plan size and the duplicate probe_id check
plan_accepted(probes, max_probes) ==
    /\ Len(probes) >= 2
    /\ Len(probes) <= max_probes
    /\ IsInjective(probes)

\* one limitation string
Limitation(kind, a, b) == [kind |-> kind, a |-> a, b |-> b]
OracleLimitations(n) == [i \in 1..n |-> Limitation("oracle", i, 0)]
\* f"Primary probe switched from {requested} to {selected} due to ..."
switch_note(requested, selected) == Limitation("switch", requested, selected)

IsDone(st) == st \in {"ok", "raised"}
Running == { id \in DOMAIN task : task[id] = "running" }
max_workers == Min(Len(plan), PROBE_MAX_WORKERS)

InitRun ==
    /\ NotRunIdle
    /\ pc = "plan" /\ plan = <<>> /\ submitted = 0
    /\ task = <<>> /\ outcome = <<>> /\ done_order = <<>> /\ snap = 0
    /\ yielded = <<>>
    /\ completed_by_id = <<>> /\ gather_order = "none"
    /\ executed_probes = <<>> /\ persisted = <<>>
    /\ store = "unused" /\ synthesis_input = <<>> /\ synthesis = NoSynthesis
    /\ primary_probe = None /\ rendered = NoResult /\ result = NoResult
    /\ error = NoError /\ steps = <<"PLAN">>

Fail(kind, id) ==
    /\ pc' = "failed"
    /\ error' = [kind |-> kind, probe_id |-> id]

\* lines 288-296: plan_exploration returns a normalized plan or raises
PlanExploration ==
    /\ pc = "plan"
    /\ \E raw \in OraclePlans :
          IF plan_accepted(raw, MAX_EXPLORATION_PROBES)
          THEN /\ plan' = raw
               /\ task' = [id \in Range(raw) |-> "none"]
               /\ outcome' = [id \in Range(raw) |-> None]
               /\ pc' = "submit"
               /\ steps' = Append(steps, "PROBE")
               /\ UNCHANGED error
          ELSE /\ Fail("plan", 0)
               /\ UNCHANGED <<plan, task, outcome, steps>>
    /\ UNCHANGED <<submitted, done_order, snap, yielded, completed_by_id,
                   gather_order, executed_probes, persisted, store, synthesis_input, synthesis,
                   primary_probe, rendered, result, notRun>>

\* lines 343-354: executor.submit(execute_probe, probe), in plan order
SubmitProbe ==
    /\ pc = "submit"
    /\ submitted < Len(plan)
    /\ task' = [task EXCEPT ![plan[submitted + 1]] = "queued"]
    /\ submitted' = submitted + 1
    /\ UNCHANGED <<pc, plan, outcome, done_order, snap, yielded, completed_by_id,
                   gather_order, executed_probes, persisted, store, synthesis_input, synthesis,
                   primary_probe, rendered, result, error, steps, notRun>>

\* line 356: as_completed(future_to_probe_id) is entered; it first yields the
\* futures that are already finished
EnterAsCompleted ==
    /\ pc = "submit"
    /\ submitted = Len(plan)
    /\ pc' = "gather"
    /\ snap' = Len(done_order)
    /\ UNCHANGED <<plan, submitted, task, outcome, done_order, yielded,
                   completed_by_id, gather_order, executed_probes, persisted, store,
                   synthesis_input, synthesis, primary_probe, rendered, result,
                   error, steps, notRun>>

\* a pool thread takes the oldest queued work item (the pool has max_workers threads)
WorkerStart ==
    /\ \E k \in 1..submitted :
          /\ task[plan[k]] = "queued"
          /\ \A j \in 1..(k - 1) : task[plan[j]] # "queued"
          /\ Cardinality(Running) < max_workers
          /\ task' = [task EXCEPT ![plan[k]] = "running"]
    /\ UNCHANGED <<pc, plan, submitted, outcome, done_order, snap, yielded,
                   completed_by_id, gather_order, executed_probes, persisted, store,
                   synthesis_input, synthesis, primary_probe, rendered, result,
                   error, steps, notRun>>

\* lines 308-335: execute_probe returns a ProbeResult
WorkerReturn ==
    /\ \E id \in Running :
          \E r \in RunResults(id) :
             /\ task' = [task EXCEPT ![id] = "ok"]
             /\ outcome' = [outcome EXCEPT ![id] = r]
             /\ done_order' = Append(done_order, id)
    /\ UNCHANGED <<pc, plan, submitted, snap, yielded, completed_by_id,
                   gather_order, executed_probes, persisted, store, synthesis_input, synthesis,
                   primary_probe, rendered, result, error, steps, notRun>>

\* lines 308-335: execute_probe raises (unsafe SQL, engine error, expired session)
WorkerRaise ==
    /\ \E id \in Running :
          /\ task' = [task EXCEPT ![id] = "raised"]
          /\ done_order' = Append(done_order, id)
    /\ UNCHANGED <<pc, plan, submitted, outcome, snap, yielded, completed_by_id,
                   gather_order, executed_probes, persisted, store, synthesis_input, synthesis,
                   primary_probe, rendered, result, error, steps, notRun>>

\* A plausible slip: as_completed yields only the futures that were finished
\* when it was entered
next_yield_of_snapshot_only == { done_order[i] : i \in 1..snap } \ Range(yielded)

\* the futures as_completed may yield next: any of those finished before it was
\* entered, then the others in their order of completion
NextYield ==
    LET early == { done_order[i] : i \in 1..snap } \ Range(yielded)
    IN  IF early # {} THEN early
        ELSE IF Len(yielded) < Len(done_order) THEN {done_order[Len(yielded) + 1]}
        ELSE {}

\* A plausible slip: a failed future is skipped instead of aborting the run
on_future_swallow(id) ==
    /\ yielded' = Append(yielded, id)
    /\ completed_by_id' = IF task[id] = "raised" THEN completed_by_id
                          ELSE Append(completed_by_id, outcome[id])
    /\ UNCHANGED <<pc, error>>

\* lines 357-364: future.result() returns the ProbeResult or raises; a raise
\* leaves the with-block, whose exit waits for the pool (shutdown(wait=True))
on_future(id) ==
    /\ yielded' = Append(yielded, id)
    /\ IF task[id] = "raised"
       THEN /\ pc' = "abort_wait"
            /\ error' = [kind |-> "probe", probe_id |-> id]
            /\ UNCHANGED completed_by_id
       ELSE /\ completed_by_id' = Append(completed_by_id, outcome[id])
            /\ UNCHANGED <<pc, error>>

GatherYield ==
    /\ pc = "gather"
    /\ \E id \in NextYield : on_future(id)
    /\ UNCHANGED <<plan, submitted, task, outcome, done_order, snap,
                   gather_order, executed_probes, persisted, store, synthesis_input, synthesis,
                   primary_probe, rendered, result, steps, notRun>>

\* the with-block is left by the exception once every submitted probe has finished
AbortRaise ==
    /\ pc = "abort_wait"
    /\ \A id \in DOMAIN task : IsDone(task[id])
    /\ pc' = "failed"
    /\ UNCHANGED <<plan, submitted, task, outcome, done_order, snap, yielded,
                   completed_by_id, gather_order, executed_probes, persisted, store,
                   synthesis_input, synthesis, primary_probe, rendered, result,
                   error, steps, notRun>>

\* A plausible slip: the gather loop is left after the first future
loop_exhausted_after_first == Len(yielded) >= 1

\* the for-loop of line 356 ends when as_completed has yielded every future
loop_exhausted == Len(yielded) = Len(plan)

\* A plausible slip: the executed probes are listed in order of completion
build_executed_probes_in_completion_order(probes, completed) == completed

\* lines 375-379: the completed probes, in plan order
build_executed_probes(probes, completed) ==
    LET kept == SelectSeq(probes, LAMBDA id : id \in Range(Ids(completed)))
    IN  [i \in 1..Len(kept) |-> by_id_get(completed, kept[i])]

\* The executor, its futures, the as_completed generator and completed_by_id are
\* not read after line 379: they are dropped here.
LeaveGather ==
    /\ pc = "gather"
    /\ loop_exhausted
    /\ executed_probes' = build_executed_probes(plan, completed_by_id)
    /\ gather_order' = IF yielded = plan THEN "plan_order" ELSE "other_order"
    /\ done_order' = <<>> /\ snap' = 0 /\ yielded' = <<>> /\ completed_by_id' = <<>>
    /\ pc' = "persist"
    /\ steps' = Append(steps, "PERSIST-SUMMARIES")
    /\ UNCHANGED <<plan, submitted, task, outcome, persisted, store, synthesis_input, synthesis,
                   primary_probe, rendered, result, error, notRun>>

\* the compact per-probe summary that is stored and handed to the oracle
Summary(probe) == [probe_id |-> probe.probe_id, row_count |-> probe.row_count]
Summaries(probes) == [i \in 1..Len(probes) |-> Summary(probes[i])]

\* ... ORDER BY probe_id ASC (the probe ids are distinct)
SortById(s) ==
    [i \in 1..Len(s) |->
        CHOOSE r \in Range(s) :
            Cardinality({ q \in Range(s) : q.probe_id < r.probe_id }) = i - 1]

StoreBehaviours == {"ok", "persist_raises", "load_raises", "load_empty"}

\* lines 381-401: persist_analysis_artifacts; it raises when the session expired
\* or the engine fails
PersistSummaries ==
    /\ pc = "persist"
    /\ \E st \in StoreBehaviours :
          /\ store' = st
          /\ IF st = "persist_raises"
             THEN /\ Fail("persist", 0)
                  /\ UNCHANGED persisted
             ELSE /\ persisted' = Summaries(executed_probes)
                  /\ pc' = "load"
                  /\ UNCHANGED error
    /\ UNCHANGED <<plan, submitted, task, outcome, done_order, snap, yielded,
                   completed_by_id, gather_order, executed_probes, synthesis_input, synthesis,
                   primary_probe, rendered, result, steps, notRun>>

\* lines 403-422: load_analysis_artifact_summaries, else the in-memory summaries
LoadSummaries ==
    /\ pc = "load"
    /\ IF store = "load_raises"
       THEN /\ Fail("load", 0)
            /\ UNCHANGED <<synthesis_input, steps>>
       ELSE /\ synthesis_input' = IF store = "ok" THEN SortById(persisted)
                                  ELSE Summaries(executed_probes)
            /\ pc' = "synthesize"
            /\ steps' = Append(steps, "SYNTHESIZE")
            /\ UNCHANGED error
    /\ UNCHANGED <<plan, submitted, task, outcome, done_order, snap, yielded,
                   completed_by_id, gather_order, executed_probes, persisted, store, synthesis,
                   primary_probe, rendered, result, notRun>>

\* lines 432-436 and _normalize_exploration_synthesis: the oracle names a primary
\* probe (0: none or unknown), an analysis type and some limitations
SynthesizeExploration ==
    /\ pc = "synthesize"
    /\ \E req \in 0..Len(plan), n \in 0..MaxOracleLimitations,
          atype \in {"trend", "other"} :
          IF req \in Range(Ids(synthesis_input))
          THEN /\ synthesis' = [primary_probe_id |-> req,
                                analysis_type |-> atype,
                                limitations |-> Take(OracleLimitations(n),
                                                     MAX_SYNTHESIS_LIMITATIONS)]
               /\ pc' = "select"
               /\ steps' = Append(steps, "SELECT-PRIMARY")
               /\ UNCHANGED error
          ELSE /\ Fail("synthesis", 0)
               /\ UNCHANGED <<synthesis, steps>>
    /\ UNCHANGED <<plan, submitted, task, outcome, done_order, snap, yielded,
                   completed_by_id, gather_order, executed_probes, persisted, store,
                   synthesis_input, primary_probe, rendered, result, notRun>>

\* lines 438-443
SelectPrimary ==
    /\ pc = "select"
    /\ primary_probe' = _select_primary_probe(synthesis.primary_probe_id, executed_probes)
    /\ pc' = "render"
    /\ steps' = Append(steps, "RENDER")
    /\ UNCHANGED <<plan, submitted, task, outcome, done_order, snap, yielded,
                   completed_by_id, gather_order, executed_probes, persisted, store,
                   synthesis_input, synthesis, rendered, result, error, notRun>>

\* lines 461-470: the synthesis limitations, with the switch note appended
synthesis_limitations(requested, selected, limitations) ==
    IF selected # requested /\ switch_note(requested, selected) \notin Range(limitations)
    THEN Append(limitations, switch_note(requested, selected))
    ELSE limitations

\* lines 454-506: the chart is rendered from the primary probe's rows and the
\* result dict is built
RenderChart ==
    /\ pc = "render"
    /\ \E ctype \in {"bar", "pie"}, shown \in ChartChoices(primary_probe.row_count) :
          rendered' = [primary_probe_id |-> primary_probe.probe_id,
                       row_count |-> primary_probe.row_count,
                       visualized_row_count |-> shown,
                       analysis_type |-> synthesis.analysis_type,
                       chart_type |-> ctype,
                       exploration_probes |-> Ids(executed_probes),
                       limitations |->
                          synthesis_limitations(synthesis.primary_probe_id,
                                                primary_probe.probe_id,
                                                synthesis.limitations)]
    /\ pc' = "trust"
    /\ UNCHANGED <<plan, submitted, task, outcome, done_order, snap, yielded,
                   completed_by_id, gather_order, executed_probes, persisted, store,
                   synthesis_input, synthesis, primary_probe, result, error, steps,
                   notRun>>

\* TrustRuntime.build_trust_layer, lines 26-61: the limitations it lists
trust_limitations(row_count, visualized_row_count, analysis_type, chart_type, question_causal, temporal_columns, numeric_columns) ==
    IF row_count = 0
    THEN <<Limitation("no_rows", 0, 0)>>
         \o (IF question_causal THEN <<Limitation("causal", 0, 0)>> ELSE <<>>)
    ELSE (IF row_count < 20 THEN <<Limitation("small_sample", 0, 0)>> ELSE <<>>)
         \o (IF visualized_row_count < row_count
             THEN <<Limitation("sampled", visualized_row_count, row_count)>> ELSE <<>>)
         \o (IF analysis_type = "trend" /\ temporal_columns = 0
             THEN <<Limitation("no_temporal", 0, 0)>> ELSE <<>>)
         \o (IF analysis_type = "correlation" /\ numeric_columns < 2
             THEN <<Limitation("few_numeric", 0, 0)>> ELSE <<>>)
         \o (IF question_causal THEN <<Limitation("causal", 0, 0)>> ELSE <<>>)
         \o (IF chart_type = "pie" /\ row_count > MAX_PIE_POINTS
             THEN <<Limitation("pie", 0, 0)>> ELSE <<>>)

\* for item in synthesis_limitations: if item not in base: base.append(item)
RECURSIVE append_new(_, _)
append_new(base, items) ==
    IF items = <<>> THEN base
    ELSE append_new(IF Head(items) \in Range(base) THEN base
                    ELSE Append(base, Head(items)),
                    Tail(items))

\* run_analysis lines 563-571
merge_limitations(base_limitations, extra) ==
    IF extra # <<>>
    THEN Take(append_new(base_limitations, extra), MAX_TRUST_LIMITATIONS)
    ELSE base_limitations

\* run_analysis lines 537-574: the trust layer is attached and the result returned
AttachTrust ==
    /\ pc = "trust"
    /\ \E question_causal \in BOOLEAN, temporal_columns \in {0, 1} :
          result' = [rendered EXCEPT !.limitations =
                        merge_limitations(
                            trust_limitations(rendered.row_count,
                                              rendered.visualized_row_count,
                                              rendered.analysis_type,
                                              rendered.chart_type,
                                              question_causal, temporal_columns, 2),
                            rendered.limitations)]
    /\ pc' = "done"
    /\ steps' = Append(steps, "DONE")
    /\ UNCHANGED <<plan, submitted, task, outcome, done_order, snap, yielded,
                   completed_by_id, gather_order, executed_probes, persisted, store,
                   synthesis_input, synthesis, primary_probe, rendered, error,
                   notRun>>

NextRun ==
    \/ PlanExploration
    \/ SubmitProbe
    \/ EnterAsCompleted
    \/ WorkerStart
    \/ WorkerReturn
    \/ WorkerRaise
    \/ GatherYield
    \/ AbortRaise
    \/ LeaveGather
    \/ PersistSummaries
    \/ LoadSummaries
    \/ SynthesizeExploration
    \/ SelectPrimary
    \/ RenderChart
    \/ AttachTrust

SpecRun == InitRun /\ [][NextRun]_vars

\* The run where every oracle call and every probe query eventually returns or
\* raises, and every thread that can take a step eventually does. The texts of
\* the oracle's limitations steer no step of the run: the fair runs are checked
\* with at most one of them.
FewLimitations == Len(synthesis.limitations) <= 1
NextRunFair == NextRun /\ FewLimitations'
SpecRunFair == InitRun /\ [][NextRunFair]_vars /\ WF_vars(NextRunFair)

\* ------------------------------------------------------------------------
\* Claims about the exploration run
\* ------------------------------------------------------------------------
SomeProbeRaised == \E id \in DOMAIN task : task[id] = "raised"
PlanOrderResults == [i \in 1..Len(plan) |-> outcome[plan[i]]]
PipelineOrder ==
    <<"PLAN", "PROBE", "PERSIST-SUMMARIES", "SYNTHESIZE", "SELECT-PRIMARY",
      "RENDER", "DONE">>

\* C1: once the execution of a planned probe has raised, the run ends by raising an
\* error that names a probe that failed; it returns no result, and neither
\* persist_analysis_artifacts nor the synthesis oracle is ever called.
C1_ProbeFailureAbortsRun ==
    SomeProbeRaised =>
        /\ pc \in {"submit", "gather", "abort_wait", "failed"}
        /\ result = NoResult /\ rendered = NoResult
        /\ store = "unused" /\ persisted = <<>>
        /\ synthesis_input = <<>> /\ synthesis = NoSynthesis
        /\ pc = "failed" => /\ error.kind = "probe"
                            /\ error.probe_id \in DOMAIN task
                            /\ task[error.probe_id] = "raised"
        /\ ~ ENABLED NextRun => pc = "failed"

\* C1 witness: the run has raised for a failed probe while another probe succeeded
C1_Witness ==
    /\ pc = "failed"
    /\ error.kind = "probe"
    /\ task[error.probe_id] = "raised"
    /\ \E id \in DOMAIN task : task[id] = "ok" /\ outcome[id].row_count > 0
    /\ result = NoResult

\* C2 (second half): the primary probe of a completed run is an executed probe
RunPrimaryIsExecuted ==
    pc = "done" =>
        /\ result.primary_probe_id \in Range(Ids(executed_probes))
        /\ result.primary_probe_id \in Range(plan)

\* C6: whenever the selected primary probe differs from the one the synthesis oracle
\* requested, the limitations of the returned trust assessment contain the note
\* naming the requested and the selected probe id.
C6_SwitchNoteInTrustLimitations ==
    (pc = "done" /\ result.primary_probe_id # synthesis.primary_probe_id) =>
        switch_note(synthesis.primary_probe_id, result.primary_probe_id)
            \in Range(result.limitations)

\* C7: the executed-probe list, the persisted artifacts, the synthesis input, the
\* selected primary probe and the order of exploration.probes are determined by the
\* plan and the per-probe results alone, whatever the order of completion was.
C7_CompletionOrderIrrelevant ==
    /\ gather_order # "none" => executed_probes = PlanOrderResults
    /\ persisted # <<>> => persisted = Summaries(PlanOrderResults)
    /\ synthesis_input # <<>> =>
          /\ Range(synthesis_input) = Range(Summaries(PlanOrderResults))
          /\ Len(synthesis_input) = Len(plan)
          /\ store = "ok" =>
                \A i, j \in 1..Len(synthesis_input) :
                    i < j => synthesis_input[i].probe_id < synthesis_input[j].probe_id
          /\ store # "ok" => synthesis_input = Summaries(PlanOrderResults)
    /\ primary_probe # None =>
          primary_probe = _select_primary_probe(synthesis.primary_probe_id,
                                                PlanOrderResults)
    /\ pc = "done" => result.exploration_probes = plan

\* C7 witness: a completed run whose probes were not yielded in plan order, and in
\* which the primary probe was chosen among two probes of equal evidence score
C7_Witness ==
    /\ pc = "done"
    /\ gather_order = "other_order"
    /\ Len(plan) = 3
    /\ result.primary_probe_id # synthesis.primary_probe_id
    /\ \E i, j \in 1..3 :
          /\ i # j
          /\ evidence_score(executed_probes[i]) = evidence_score(executed_probes[j])
          /\ executed_probes[i] = primary_probe

\* C8: the steps are entered in the order PLAN, PROBE, PERSIST-SUMMARIES, SYNTHESIZE,
\* SELECT-PRIMARY, RENDER, DONE; no probe is started before the plan was accepted;
\* summaries are persisted and the synthesis oracle is called only after every
\* planned probe completed successfully; the primary probe is selected only after
\* the synthesis returned.
C8_StepsInOrder ==
    /\ steps = Take(PipelineOrder, Len(steps))
    /\ (pc = "done") = (steps = PipelineOrder)
    /\ (\E id \in DOMAIN task : task[id] # "none") =>
          /\ plan # <<>> /\ Len(steps) >= 2
          /\ plan_accepted(plan, MAX_EXPLORATION_PROBES)
    /\ (Len(steps) >= 3 \/ store # "unused" \/ persisted # <<>>
          \/ synthesis_input # <<>> \/ synthesis # NoSynthesis) =>
          /\ plan # <<>>
          /\ \A id \in Range(plan) : task[id] = "ok"
          /\ Range(Ids(executed_probes)) = Range(plan)
    /\ (primary_probe # None \/ Len(steps) >= 6) =>
          /\ synthesis # NoSynthesis
          /\ synthesis.primary_probe_id \in Range(plan)

\* C8 witness: a completed run over three probes that had to queue for the pool
C8_Witness ==
    /\ pc = "done"
    /\ steps = PipelineOrder
    /\ Len(plan) = 3
    /\ store = "ok"

\* C25: if every oracle call and every probe query eventually returns or raises,
\* the run eventually ends, by returning a result or by raising an error; it
\* stays in no step for ever.
C25_RunTerminates == <>(pc \in {"done", "failed"})

C25_Witness ==
    /\ pc = "done"
    /\ Len(plan) = MaxPlanLen
    /\ gather_order = "other_order"

\* C15: if the durable summary store is unavailable after all probes succeeded
\* (persisting raises, loading raises, or loading returns nothing), the run does
\* not abort: the synthesis oracle is called with the in-memory summaries of
\* exactly the executed probes.
C15_StoreUnavailableFallsBack ==
    store \in {"persist_raises", "load_raises", "load_empty"} =>
        /\ error.kind \notin {"persist", "load"}
        /\ "SYNTHESIZE" \in Range(steps) =>
              synthesis_input = Summaries(executed_probes)

\* What holds of C15: when loading returns nothing, the synthesis oracle is called
\* with the in-memory summaries of the executed probes.
LoadEmptyFallsBack ==
    store = "load_empty" =>
        /\ error.kind \notin {"persist", "load"}
        /\ "SYNTHESIZE" \in Range(steps) =>
              synthesis_input = Summaries(executed_probes)

\* ========================================================================
\* runtime/trust.py: build_trust_layer (confidence in hundredths)
\* ========================================================================
\* A plausible slip: only the upper limit is enforced
clamp_upper_only(value, lower, upper) == Min(upper, value)

\* lines 10-12: max(lower, min(upper, value))
_clamp(value, lower, upper) ==
    LET capped == Min(upper, value)
    IN  IF lower >= capped THEN lower ELSE capped

\* lines 28-57 and 63: the confidence before rounding, in hundredths
trust_confidence(row_count, visualized_row_count, analysis_type, question_causal, temporal_columns, numeric_columns) ==
    LET by_rows ==
            IF row_count = 0 THEN 8
            ELSE 55
                 + (IF row_count >= 500 THEN 16
                    ELSE IF row_count >= 100 THEN 11
                    ELSE IF row_count < 20 THEN -12
                    ELSE 0)
                 + (IF visualized_row_count < row_count THEN -3 ELSE 0)
                 + (IF analysis_type = "trend" /\ temporal_columns = 0 THEN -12 ELSE 0)
                 + (IF analysis_type = "correlation" /\ numeric_columns < 2
                    THEN -12 ELSE 0)
        confidence == by_rows + (IF question_causal THEN -8 ELSE 0)
    IN  _clamp(confidence, 5, 98)

\* lines 14-77: confidence_score (round(confidence, 2) keeps hundredths) and
\* limitations
build_trust_layer(row_count, visualized_row_count, analysis_type, chart_type, question_causal, temporal_columns, numeric_columns) ==
    [confidence_score |->
        trust_confidence(row_count, visualized_row_count, analysis_type,
                         question_causal, temporal_columns, numeric_columns),
     limitations |->
        trust_limitations(row_count, visualized_row_count, analysis_type, chart_type,
                          question_causal, temporal_columns, numeric_columns)]

TrustRowChoices == {0, 10, 20, 150, 600}

InitTrust ==
    /\ trust_call = NoTrustCall
    /\ NotTrustIdle

\* build_trust_layer is called once, with any arguments
BuildTrustLayer ==
    /\ trust_call = NoTrustCall
    /\ \E row_count \in TrustRowChoices, shown \in BOOLEAN,
          analysis_type \in {"trend", "correlation", "other"},
          chart_type \in {"bar", "pie"}, question_causal \in BOOLEAN,
          temporal_columns \in 0..1, numeric_columns \in 0..MaxNumericColumns :
          LET visualized_row_count == IF shown THEN row_count ELSE 0
          IN  trust_call' =
                [called |-> TRUE,
                 row_count |-> row_count,
                 visualized_row_count |-> visualized_row_count,
                 analysis_type |-> analysis_type,
                 question_causal |-> question_causal,
                 trust |-> build_trust_layer(row_count, visualized_row_count,
                                             analysis_type, chart_type, question_causal,
                                             temporal_columns, numeric_columns)]
    /\ UNCHANGED notTrust

NextTrust == BuildTrustLayer

SpecTrust == InitTrust /\ [][NextTrust]_vars

\* ------------------------------------------------------------------------
\* Claims about build_trust_layer
\* ------------------------------------------------------------------------
\* C18: for every row_count, visualized_row_count, analysis_type, dataset
\* profile, question and chart type, the confidence_score build_trust_layer
\* returns lies in [0.05, 0.98].
C18_ConfidenceClamped ==
    trust_call.called =>
        /\ trust_call.trust.confidence_score >= 5
        /\ trust_call.trust.confidence_score <= 98

\* C18 witness: no rows and a causal question: 0.08 - 0.08 is raised to 0.05
C18_Witness ==
    /\ trust_call.called
    /\ trust_call.row_count = 0
    /\ trust_call.question_causal
    /\ trust_call.trust.confidence_score = 5

\* ========================================================================
\* runtime/charting.py: aggregate_categories
\* ========================================================================
\* A row is [x, y]: row.get(x_key) and row.get(y_key). NoneX and NoneY stand for
\* None; the y-values are numbers (_to_float returns them unchanged).
NoneX == "<None>"
NoneY == 1000
AggLabels == {"a", "b", "c", "d"}
AggValues == {-2, 3}
\* the rows the harness draws from (label "d" comes with one value only)
AggRows == { [x |-> x, y |-> y] : x \in AggLabels \cup {NoneX}, y \in AggValues \cup {NoneY} }
              \ { [x |-> "d", y |-> y] : y \in {NoneY, -2} }

Abs(v) == IF v < 0 THEN -v ELSE v

RECURSIVE SumY(_)
SumY(rows) == IF rows = <<>> THEN 0 ELSE Head(rows).y + SumY(Tail(rows))

\* lines 197-204: buckets, a dict, as its items in insertion order
RECURSIVE fill_buckets(_, _)
fill_buckets(data, buckets) ==
    IF data = <<>> THEN buckets
    ELSE LET row == Head(data)
             at == { i \in 1..Len(buckets) : buckets[i].x = row.x }
         IN  IF row.x = NoneX \/ row.y = NoneY
             THEN fill_buckets(Tail(data), buckets)
             ELSE IF at = {}
             THEN fill_buckets(Tail(data), Append(buckets, [x |-> row.x, y |-> row.y]))
             ELSE fill_buckets(Tail(data),
                               [i \in 1..Len(buckets) |->
                                   IF i \in at
                                   THEN [buckets[i] EXCEPT !.y = @ + row.y]
                                   ELSE buckets[i]])

\* line 206: sorted(..., key=abs(total), reverse=True); equal keys keep their order
ranked_buckets(buckets) ==
    LET before(i) == Cardinality({ j \in 1..Len(buckets) :
                                      \/ Abs(buckets[j].y) > Abs(buckets[i].y)
                                      \/ Abs(buckets[j].y) = Abs(buckets[i].y) /\ j < i })
    IN  [k \in 1..Len(buckets) |->
            buckets[CHOOSE i \in 1..Len(buckets) : before(i) = k - 1]]

\* lines 190-214
aggregate_categories(data, max_points) ==
    LET ranked == ranked_buckets(fill_buckets(data, <<>>))
    IN  IF Len(ranked) <= max_points THEN ranked
        ELSE Append(SubSeq(ranked, 1, max_points - 1),
                    [x |-> "Other",
                     y |-> SumY(SubSeq(ranked, max_points, Len(ranked)))])

InitAgg ==
    /\ agg_data = <<>> /\ agg_out = NoAggOut
    /\ NotAggIdle

\* one more row of query data
AggAddRow ==
    /\ ~ agg_out.called
    /\ Len(agg_data) < MaxAggRows
    /\ \E row \in AggRows : agg_data' = Append(agg_data, row)
    /\ UNCHANGED <<agg_out, notAgg>>

\* aggregate_categories(data, x_key, y_key, max_points)
AggregateCategories ==
    /\ ~ agg_out.called
    /\ \E max_points \in 2..MaxAggPoints :
          agg_out' = [called |-> TRUE, max_points |-> max_points,
                      result |-> aggregate_categories(agg_data, max_points)]
    /\ UNCHANGED <<agg_data, notAgg>>

NextAgg == AggAddRow \/ AggregateCategories

SpecAgg == InitAgg /\ [][NextAgg]_vars

\* ------------------------------------------------------------------------
\* Claims about aggregate_categories
\* ------------------------------------------------------------------------
\* the rows whose y-value is a number
RECURSIVE WithY(_)
WithY(rows) ==
    IF rows = <<>> THEN <<>>
    ELSE (IF Head(rows).y = NoneY THEN <<>> ELSE <<Head(rows)>>) \o WithY(Tail(rows))

\* the rows that have both an x-label and a y-value
RECURSIVE WithXY(_)
WithXY(rows) ==
    IF rows = <<>> THEN <<>>
    ELSE (IF Head(rows).y = NoneY \/ Head(rows).x = NoneX THEN <<>> ELSE <<Head(rows)>>)
         \o WithXY(Tail(rows))

XLabels(rows) == { rows[i].x : i \in 1..Len(rows) } \ {NoneX}

\* C19: for every row list with more than cap distinct x-labels,
\* aggregate_categories returns exactly cap buckets, the last labelled "Other",
\* and the output y-values sum to the sum of all input y-values of the column.
C19_AggregateKeepsTotal ==
    (agg_out.called /\ Cardinality(XLabels(agg_data)) > agg_out.max_points) =>
        /\ Len(agg_out.result) = agg_out.max_points
        /\ agg_out.result[Len(agg_out.result)].x = "Other"
        /\ SumY(agg_out.result) = SumY(WithY(agg_data))

\* What holds of C19: the same, counting and summing only the rows that have both
\* an x-label and a numeric y-value.
AggregateKeepsTotalOfCompleteRows ==
    agg_out.called =>
        /\ SumY(agg_out.result) = SumY(WithXY(agg_data))
        /\ Cardinality(XLabels(WithXY(agg_data))) > agg_out.max_points =>
              /\ Len(agg_out.result) = agg_out.max_points
              /\ agg_out.result[Len(agg_out.result)].x = "Other"

\* ========================================================================
\* runtime/charting.py: infer_chart_columns / normalize_chart_config
\* ========================================================================
CHART_TYPES == {"line", "bar", "scatter", "pie", "area"}

\* The data are the columns of the row set in key order; a column is the kinds
\* of its values over the rows: "num" (_is_numeric), "time" (_looks_temporal),
\* "text" (neither) or "null" (None).
ColumnValues ==
    { <<"num", "num", "num", "num", "num">>,
      <<"time", "time", "time", "time", "time">>,
      <<"text", "text", "text", "text", "text">>,
      <<"null", "null", "null", "null", "null">>,
      <<"num", "num", "num", "num", "text">> }
ColumnNames == <<"c1", "c2", "c3", "c4">>
Keys(data) == [i \in 1..Len(data) |-> ColumnNames[i]]

CountOf(values, kind) == Cardinality({ i \in 1..Len(values) : values[i] = kind })

\* lines 66-79: the class of one column; "none" when all its values are None
column_class(values) ==
    LET n == Len(values) - CountOf(values, "null")
    IN  IF n = 0 THEN "none"
        ELSE IF 5 * CountOf(values, "num") >= 4 * n THEN "numeric"
        ELSE IF 5 * CountOf(values, "time") >= 4 * n THEN "temporal"
        ELSE "categorical"

\* lines 56-81: the keys of one class, in key order
keys_of_class(data, class) ==
    LET idx == { i \in 1..Len(data) : column_class(data[i]) = class }
    IN  [k \in 1..Cardinality(idx) |->
            ColumnNames[CHOOSE i \in idx : Cardinality({ j \in idx : j < i }) = k - 1]]

\* an absent groupBy
NoGroup == "<none>"

\* lines 83-128, for a non-empty row set
normalize_chart_config(data, base_config) ==
    LET keys == Range(Keys(data))
        numeric_keys == keys_of_class(data, "numeric")
        temporal_keys == keys_of_class(data, "temporal")
        categorical_keys == keys_of_class(data, "categorical")
        type0 == IF base_config.type \in CHART_TYPES THEN base_config.type ELSE "bar"
        x0 == IF base_config.xKey \in keys THEN base_config.xKey
              ELSE IF temporal_keys # <<>> THEN temporal_keys[1]
              ELSE IF categorical_keys # <<>> THEN categorical_keys[1]
              ELSE ColumnNames[1]
        y0 == IF base_config.yKey \notin keys \/ base_config.yKey = x0
              THEN IF numeric_keys # <<>>
                   THEN IF numeric_keys[1] = x0 /\ Len(numeric_keys) > 1
                        THEN numeric_keys[2] ELSE numeric_keys[1]
                   ELSE IF Len(data) > 1 THEN ColumnNames[2] ELSE ColumnNames[1]
              ELSE base_config.yKey
        scatter == type0 = "scatter" /\ Len(numeric_keys) >= 2
        chart_type == IF type0 = "scatter" /\ ~ scatter THEN "bar" ELSE type0
        x1 == IF scatter THEN numeric_keys[1] ELSE x0
        y_key == IF scatter THEN numeric_keys[2] ELSE y0
        x_key == IF /\ chart_type \in {"line", "area"}
                    /\ temporal_keys # <<>>
                    /\ x1 \notin Range(temporal_keys)
                 THEN temporal_keys[1] ELSE x1
    IN  [type |-> chart_type, xKey |-> x_key, yKey |-> y_key,
         groupBy |-> IF base_config.groupBy \in keys
                        /\ base_config.groupBy \notin {x_key, y_key}
                     THEN base_config.groupBy ELSE NoGroup]

\* the base configs of the model: any type, keys of the data or not
BaseConfigs(data) ==
    LET names == Range(Keys(data)) \cup {"missing"}
    IN  { [type |-> t, xKey |-> x, yKey |-> y, groupBy |-> g] :
            t \in {"line", "bar", "scatter", "unknown"},
            x \in names, y \in names, g \in names \cup {NoGroup} }

InitCfg ==
    /\ cfg_data = <<>> /\ cfg_out = NoCfgOut /\ cfg_render = NoRender
    /\ NotCfgIdle

\* one more column in the row set
CfgAddColumn ==
    /\ ~ cfg_out.called /\ ~ cfg_render.called
    /\ Len(cfg_data) < MaxColumns
    /\ \E values \in ColumnValues : cfg_data' = Append(cfg_data, values)
    /\ UNCHANGED <<cfg_out, cfg_render, notCfg>>

\* normalize_chart_config(rows, base), and again on its own result
NormalizeChartConfig ==
    /\ ~ cfg_out.called /\ ~ cfg_render.called
    /\ cfg_data # <<>>
    /\ \E base \in BaseConfigs(cfg_data) :
          LET once == normalize_chart_config(cfg_data, base)
          IN  cfg_out' = [called |-> TRUE, base |-> base, once |-> once,
                          twice |-> normalize_chart_config(cfg_data, once)]
    /\ UNCHANGED <<cfg_data, cfg_render, notCfg>>

\* lines 143-153: add_option appends an option whose signature is new
add_option(options, option) ==
    IF option \in Range(options) THEN options ELSE Append(options, option)

\* lines 171-174: list.sort with key 0 for the preferred types and 1 for the
\* others; the sort is stable
sort_preferred_first(options, types) ==
    LET first == { i \in 1..Len(options) : options[i].type \in types }
        rest == { i \in 1..Len(options) : options[i].type \notin types }
        pick(idx, k) == CHOOSE i \in idx : Cardinality({ j \in idx : j < i }) = k - 1
    IN  [k \in 1..Len(options) |->
            IF k <= Cardinality(first) THEN options[pick(first, k)]
            ELSE options[pick(rest, k - Cardinality(first))]]

\* lines 155-169: an if-block of build_chart_options that adds one option
add_option_if(applies, options, option) ==
    IF applies THEN add_option(options, option) ELSE options

\* keys[i], when the list has one
key_at(keys, i) == IF Len(keys) >= i THEN keys[i] ELSE ""

\* lines 171-174: the preferred chart types of the analysis type come first
sort_for_analysis(options, analysis_type) ==
    IF analysis_type = "correlation" THEN sort_preferred_first(options, {"scatter"})
    ELSE IF analysis_type = "trend" THEN sort_preferred_first(options, {"line", "area"})
    ELSE options

\* lines 130-176, for a non-empty row set; unique_values is the number of
\* different values of the first categorical column
build_chart_options(data, base_config, analysis_type, unique_values) ==
    LET numeric_keys == keys_of_class(data, "numeric")
        temporal_keys == keys_of_class(data, "temporal")
        categorical_keys == keys_of_class(data, "categorical")
        option(t, x, y) == [type |-> t, xKey |-> x, yKey |-> y, groupBy |-> NoGroup]
        trend == temporal_keys # <<>> /\ numeric_keys # <<>>
        category == categorical_keys # <<>> /\ numeric_keys # <<>>
        with_base == <<normalize_chart_config(data, base_config)>>
        with_line == add_option_if(trend, with_base,
                        option("line", key_at(temporal_keys, 1), key_at(numeric_keys, 1)))
        with_area == add_option_if(trend, with_line,
                        option("area", key_at(temporal_keys, 1), key_at(numeric_keys, 1)))
        with_bar == add_option_if(category, with_area,
                        option("bar", key_at(categorical_keys, 1), key_at(numeric_keys, 1)))
        with_pie == add_option_if(category /\ unique_values <= MAX_PIE_POINTS, with_bar,
                        option("pie", key_at(categorical_keys, 1), key_at(numeric_keys, 1)))
        with_scatter == add_option_if(Len(numeric_keys) >= 2, with_pie,
                        option("scatter", key_at(numeric_keys, 1), key_at(numeric_keys, 2)))
    IN  Take(sort_for_analysis(with_scatter, analysis_type), 4)

\* analysis_runtime.py, _render_chart_payload: the chart options of the primary
\* probe's rows under the synthesized chart config and analysis type
RenderChartPayload ==
    /\ ~ cfg_out.called /\ ~ cfg_render.called
    /\ cfg_data # <<>>
    /\ \E base \in BaseConfigs(cfg_data),
          analysis_type \in {"trend", "correlation", "comparison"},
          unique_values \in {MAX_PIE_POINTS, MAX_PIE_POINTS + 1} :
          cfg_render' = [called |-> TRUE, base |-> base,
                         analysis_type |-> analysis_type,
                         chart_options |->
                            build_chart_options(cfg_data, base, analysis_type,
                                                unique_values)]
    /\ UNCHANGED <<cfg_data, cfg_out, notCfg>>

NextCfg == CfgAddColumn \/ NormalizeChartConfig \/ RenderChartPayload

SpecCfg == InitCfg /\ [][NextCfg]_vars

\* ------------------------------------------------------------------------
\* Claims about normalize_chart_config
\* ------------------------------------------------------------------------
\* C20: for every non-empty row set and every base config, normalizing an
\* already normalized config yields the same config.
C20_NormalizeIdempotent ==
    cfg_out.called => cfg_out.twice = cfg_out.once

\* C21: the default chart of the response, chart_options[0], is the synthesized
\* chart config normalized against the primary probe's rows, for every
\* synthesized analysis type.
C21_DefaultChartIsSynthesized ==
    cfg_render.called =>
        cfg_render.chart_options[1] = normalize_chart_config(cfg_data, cfg_render.base)

\* What holds of C21: the normalized synthesized config is always one of the
\* chart options, and it is the first one unless the analysis type is "trend" or
\* "correlation" and the config is not of the chart type that analysis prefers.
DefaultChartIsSynthesizedUnlessSorted ==
    cfg_render.called =>
        LET normal == normalize_chart_config(cfg_data, cfg_render.base)
        IN  /\ normal \in Range(cfg_render.chart_options)
            /\ \/ cfg_render.chart_options[1] = normal
               \/ cfg_render.analysis_type = "trend" /\ normal.type \notin {"line", "area"}
               \/ cfg_render.analysis_type = "correlation" /\ normal.type # "scatter"

\* What holds of C20: normalizing is idempotent whenever the first result has
\* different x and y keys; the type is stable in every case.
NormalizeIdempotentOnDistinctKeys ==
    cfg_out.called =>
        /\ cfg_out.twice.type = cfg_out.once.type
        /\ cfg_out.once.xKey # cfg_out.once.yKey => cfg_out.twice = cfg_out.once

\* ========================================================================
\* runtime/ml.py: MLRuntime.detect_anomalies
\* ========================================================================
\* line 251: "need at least 30"
MIN_ANOMALY_ROWS == 30

\* The data frame is a sequence of batches: count rows with the same group
\* value and the same metric value; numeric is FALSE for a metric value that
\* pd.to_numeric coerces to NaN.
RowBatches ==
    { [group |-> g, numeric |-> TRUE, metric |-> v, count |-> c] :
        g \in {"A", "B"}, v \in {5, 9}, c \in {1, MIN_ANOMALY_ROWS - 1, MIN_ANOMALY_ROWS} }
    \cup
    { [group |-> g, numeric |-> FALSE, metric |-> 0, count |-> c] :
        g \in {"A", "B"}, c \in {1, MIN_ANOMALY_ROWS - 1, MIN_ANOMALY_ROWS} }

RECURSIVE RowCount(_)
RowCount(batches) ==
    IF batches = <<>> THEN 0 ELSE Head(batches).count + RowCount(Tail(batches))

\* lines 249-250: to_numeric and dropna leave the rows with a numeric metric
numeric_rows(data) == DropIndexes(data, { i \in 1..Len(data) : ~ data[i].numeric })

rows_of_group(work, g) == DropIndexes(work, { i \in 1..Len(work) : work[i].group # g })

MetricValues(batches) == { batches[i].metric : i \in 1..Len(batches) }

\* Series.std() (ddof = 1) of the rows: "nan" for fewer than two rows, "zero"
\* when all values are equal, "positive" otherwise
metric_std(batches) ==
    IF RowCount(batches) < 2 THEN "nan"
    ELSE IF Cardinality(MetricValues(batches)) = 1 THEN "zero"
    ELSE "positive"

\* lines 254-268 with group_by: a group whose std is 0 or NaN gets a NaN
\* baseline_std, its z-scores are NaN and its rows are dropped
rows_with_z_score(work) ==
    LET groups == { work[i].group : i \in 1..Len(work) }
        kept == { g \in groups : metric_std(rows_of_group(work, g)) = "positive" }
    IN  RowCount(DropIndexes(work, { i \in 1..Len(work) : work[i].group \notin kept }))

\* lines 235-320; group_by is TRUE when a group-by column is given
detect_anomalies(data, group_by) ==
    LET work == numeric_rows(data)
    IN  IF RowCount(work) < MIN_ANOMALY_ROWS
        THEN [error |-> "not_enough_rows", rows_analyzed |-> 0]
        ELSE IF group_by
        THEN [error |-> "none", rows_analyzed |-> rows_with_z_score(work)]
        ELSE IF metric_std(work) = "zero"
        THEN [error |-> "near_zero_variance", rows_analyzed |-> 0]
        ELSE [error |-> "none", rows_analyzed |-> RowCount(work)]

InitAnom ==
    /\ anom_data = <<>> /\ anom_out = NoAnomOut
    /\ NotAnomIdle

\* one more batch of rows in the data frame
AnomAddRows ==
    /\ ~ anom_out.called
    /\ Len(anom_data) < MaxRowBatches
    /\ \E batch \in RowBatches : anom_data' = Append(anom_data, batch)
    /\ UNCHANGED <<anom_out, notAnom>>

\* detect_anomalies(data_frame, "metric", group_by)
DetectAnomalies ==
    /\ ~ anom_out.called
    /\ \E group_by \in BOOLEAN :
          LET out == detect_anomalies(anom_data, group_by)
          IN  anom_out' = [called |-> TRUE, group_by |-> group_by,
                           error |-> out.error, rows_analyzed |-> out.rows_analyzed]
    /\ UNCHANGED <<anom_data, notAnom>>

NextAnom == AnomAddRows \/ DetectAnomalies

SpecAnom == InitAnom /\ [][NextAnom]_vars

\* ------------------------------------------------------------------------
\* Claims about detect_anomalies
\* ------------------------------------------------------------------------
ZeroVariance(data) == Cardinality(MetricValues(numeric_rows(data))) <= 1
TooFewRows(data) == RowCount(numeric_rows(data)) < MIN_ANOMALY_ROWS

\* C22: detect_anomalies fails with a validation error whenever the metric has
\* zero variance or fewer than 30 numeric rows, with and without group_by.
C22_AnomaliesRejected ==
    anom_out.called /\ (ZeroVariance(anom_data) \/ TooFewRows(anom_data))
        => anom_out.error # "none"

\* What holds of C22: fewer than 30 numeric rows always fail; a zero-variance
\* metric fails with the dataset-wide baseline, and with a per-group baseline it
\* returns a result over no rows.
AnomaliesRejectedWithoutGroupBy ==
    anom_out.called =>
        /\ TooFewRows(anom_data) => anom_out.error = "not_enough_rows"
        /\ ZeroVariance(anom_data) /\ ~ anom_out.group_by => anom_out.error # "none"
        /\ ZeroVariance(anom_data) /\ ~ TooFewRows(anom_data) /\ anom_out.group_by
              => anom_out.error = "none" /\ anom_out.rows_analyzed = 0

\* ========================================================================
\* main.py: analyze_data_stream, with the run of analysis_runtime.py as the
\* stream sees it: its progress events and the probe futures of its executor
\* ========================================================================
\* the items put on the queue
Item(type, phase, probe_id) == [type |-> type, phase |-> phase, probe_id |-> probe_id]
QueueNone == Item("None", "", 0)

\* A plausible slip: the callback is put ahead of the callbacks already waiting
call_soon_first(ready, item) == <<item>> \o ready

\* loop.call_soon_threadsafe(queue.put_nowait, item): the loop runs its callbacks
\* in the order they were handed over
call_soon_threadsafe(ready, item) == Append(ready, item)

\* main.py lines 218-220, on_progress, called by the thread that runs run_analysis
on_progress(phase, probe_id) ==
    /\ st_ready' = call_soon_threadsafe(st_ready, Item("progress", phase, probe_id))
    /\ st_emitted' = Append(st_emitted, [item |-> Item("progress", phase, probe_id),
                                         thread |-> "run_analysis"])

StreamRunning == { id \in DOMAIN st_task : st_task[id] = "running" }
StreamUnfinished == { id \in DOMAIN st_task : st_task[id] \in {"pending", "running"} }

InitStream == StreamIdle /\ NotStreamIdle

\* main.py lines 209-230: the producer prepares the request, which may raise,
\* and hands run_analysis to a thread
ProducerStart ==
    /\ st_producer = "created"
    /\ \/ /\ st_producer' = "awaiting" /\ st_pc' = "plan"
          /\ UNCHANGED st_ready
       \/ /\ st_producer' = "done"
          /\ st_ready' = call_soon_threadsafe(
                             call_soon_threadsafe(st_ready, Item("error", "", 0)),
                             QueueNone)
          /\ UNCHANGED st_pc
    /\ UNCHANGED <<st_plan, st_task, st_gathered, st_emitted, st_queue, st_delivered,
                   st_consumer, notStream>>

\* analysis_runtime.py lines 289-304: the plan, or the oracle raises
StreamPlan ==
    /\ st_pc = "plan"
    /\ \/ \E n \in 2..MaxStreamProbes :
             /\ st_plan' = n
             /\ st_task' = [id \in 1..n |-> "none"]
             /\ on_progress("plan_ready", 0)
             /\ st_pc' = "submit"
       \/ /\ st_pc' = "raised"
          /\ UNCHANGED <<st_plan, st_task, st_emitted, st_ready>>
    /\ UNCHANGED <<st_producer, st_gathered, st_queue, st_delivered, st_consumer,
                   notStream>>

\* lines 343-354: probe_started, then executor.submit
StreamSubmit ==
    /\ st_pc = "submit"
    /\ \E id \in DOMAIN st_task :
          /\ st_task[id] = "none"
          /\ \A other \in 1..(id - 1) : st_task[other] # "none"
          /\ on_progress("probe_started", id)
          /\ st_task' = [st_task EXCEPT ![id] = "pending"]
          /\ st_pc' = IF id = st_plan THEN "gather" ELSE "submit"
    /\ UNCHANGED <<st_producer, st_plan, st_gathered, st_queue, st_delivered,
                   st_consumer, notStream>>

\* a worker of the executor takes a pending future; nothing in the stream or
\* in the run cancels a future
StreamWorkerStart ==
    /\ \E id \in DOMAIN st_task :
          /\ st_task[id] = "pending"
          /\ Cardinality(StreamRunning) < Min(st_plan, PROBE_MAX_WORKERS)
          /\ st_task' = [st_task EXCEPT ![id] = "running"]
    /\ UNCHANGED <<st_producer, st_pc, st_plan, st_gathered, st_emitted, st_ready,
                   st_queue, st_delivered, st_consumer, notStream>>

\* lines 308-335: execute_probe returns or raises, in its worker thread
StreamWorkerEnd ==
    /\ \E id \in DOMAIN st_task, end \in {"ok", "raised"} :
          /\ st_task[id] = "running"
          /\ st_task' = [st_task EXCEPT ![id] = end]
    /\ UNCHANGED <<st_producer, st_pc, st_plan, st_gathered, st_emitted, st_ready,
                   st_queue, st_delivered, st_consumer, notStream>>

\* lines 356-373: as_completed yields a finished future; probe_completed, or
\* the ValueError that leaves the with-block
StreamGather ==
    /\ st_pc = "gather"
    /\ \E id \in DOMAIN st_task :
          /\ id \notin st_gathered
          /\ st_task[id] \in {"ok", "raised"}
          /\ IF st_task[id] = "ok"
             THEN /\ st_gathered' = st_gathered \cup {id}
                  /\ on_progress("probe_completed", id)
                  /\ st_pc' = IF st_gathered' = DOMAIN st_task
                              THEN "synthesis" ELSE "gather"
             ELSE /\ st_pc' = "shutdown"
                  /\ UNCHANGED <<st_gathered, st_emitted, st_ready>>
    /\ UNCHANGED <<st_producer, st_plan, st_task, st_queue, st_delivered,
                   st_consumer, notStream>>

\* line 341: the with-block waits for every submitted future (shutdown(wait=True))
\* before the ValueError leaves it
StreamShutdown ==
    /\ st_pc = "shutdown"
    /\ StreamUnfinished = {}
    /\ st_pc' = "raised"
    /\ UNCHANGED <<st_producer, st_plan, st_task, st_gathered, st_emitted, st_ready,
                   st_queue, st_delivered, st_consumer, notStream>>

\* lines 424-430: synthesis_started
StreamSynthesisStarted ==
    /\ st_pc = "synthesis"
    /\ on_progress("synthesis_started", 0)
    /\ st_pc' = "synthesizing"
    /\ UNCHANGED <<st_producer, st_plan, st_task, st_gathered, st_queue,
                   st_delivered, st_consumer, notStream>>

\* lines 432-451: the synthesis oracle returns and synthesis_completed is
\* emitted, or it raises; the rest of the run emits nothing
StreamSynthesisCompleted ==
    /\ st_pc = "synthesizing"
    /\ \/ /\ on_progress("synthesis_completed", 0)
          /\ st_pc' = "returned"
       \/ /\ st_pc' = "raised"
          /\ UNCHANGED <<st_emitted, st_ready>>
    /\ UNCHANGED <<st_producer, st_plan, st_task, st_gathered, st_queue,
                   st_delivered, st_consumer, notStream>>

\* main.py lines 222-261: to_thread has returned or raised; the result or the
\* error, then None
ProducerResume ==
    /\ st_producer = "awaiting"
    /\ st_pc \in {"returned", "raised"}
    /\ st_ready' = call_soon_threadsafe(
                       call_soon_threadsafe(st_ready,
                          Item(IF st_pc = "returned" THEN "result" ELSE "error", "", 0)),
                       QueueNone)
    /\ st_producer' = "done"
    /\ UNCHANGED <<st_pc, st_plan, st_task, st_gathered, st_emitted, st_queue,
                   st_delivered, st_consumer, notStream>>

\* the loop runs the next callback: queue.put_nowait(item)
LoopCallback ==
    /\ st_ready # <<>>
    /\ st_queue' = Append(st_queue, Head(st_ready))
    /\ st_ready' = Tail(st_ready)
    /\ UNCHANGED <<st_producer, st_pc, st_plan, st_task, st_gathered, st_emitted,
                   st_delivered, st_consumer, notStream>>

\* main.py lines 265-271: the event generator takes an item and yields it, or
\* stops at None
ConsumerGet ==
    /\ st_consumer = "reading"
    /\ st_queue # <<>>
    /\ st_queue' = Tail(st_queue)
    /\ IF Head(st_queue) = QueueNone
       THEN st_consumer' = "finished" /\ UNCHANGED st_delivered
       ELSE st_delivered' = Append(st_delivered, Head(st_queue))
            /\ UNCHANGED st_consumer
    /\ UNCHANGED <<st_producer, st_pc, st_plan, st_task, st_gathered, st_emitted,
                   st_ready, notStream>>

\* main.py lines 272-274: the consumer abandons the stream; the generator is
\* closed and its finally-block cancels the producer task if it is not done
ConsumerAbandon ==
    /\ st_consumer = "reading"
    /\ st_consumer' = "abandoned"
    /\ st_producer' = CASE st_producer = "created" -> "cancelled"
                        [] st_producer = "awaiting" -> "cancelling"
                        [] OTHER -> st_producer
    /\ UNCHANGED <<st_pc, st_plan, st_task, st_gathered, st_emitted, st_ready,
                   st_queue, st_delivered, notStream>>

\* CancelledError reaches the producer at its await: no except clause takes
\* it, the finally-block hands over None; the thread of run_analysis goes on
ProducerCancelled ==
    /\ st_producer = "cancelling"
    /\ st_producer' = "cancelled"
    /\ st_ready' = call_soon_threadsafe(st_ready, QueueNone)
    /\ UNCHANGED <<st_pc, st_plan, st_task, st_gathered, st_emitted, st_queue,
                   st_delivered, st_consumer, notStream>>

NextStream ==
    \/ ProducerStart
    \/ StreamPlan
    \/ StreamSubmit
    \/ StreamWorkerStart
    \/ StreamWorkerEnd
    \/ StreamGather
    \/ StreamShutdown
    \/ StreamSynthesisStarted
    \/ StreamSynthesisCompleted
    \/ ProducerResume
    \/ LoopCallback
    \/ ConsumerGet
    \/ ConsumerAbandon
    \/ ProducerCancelled

SpecStream == InitStream /\ [][NextStream]_vars

\* ------------------------------------------------------------------------
\* Claims about the streamed analysis
\* ------------------------------------------------------------------------
\* C23: once the consumer has abandoned the stream, no probe task that has not
\* yet started is started: the pending ones are cancelled and never execute.
C23_AbandonCancelsPendingProbes ==
    [][st_consumer = "abandoned" =>
          \A id \in DOMAIN st_task :
             ~ (st_task[id] = "pending" /\ st_task'[id] = "running")]_vars

\* What holds of C23: abandoning cancels the producer task only, unless it is
\* done already.
AbandonCancelsProducer ==
    st_consumer = "abandoned" => st_producer \in {"cancelling", "cancelled", "done"}

ProgressOf(items) ==
    DropIndexes(items, { i \in 1..Len(items) : items[i].type # "progress" })
EmittedItems == [i \in 1..Len(st_emitted) |-> st_emitted[i].item]

\* C24: every progress notification goes through the queue to the consumer in
\* the order it was emitted, none is lost or doubled on the way, a consumer
\* that reads to the end has received every one, and progress_callback is only
\* invoked by the thread of run_analysis, never by a probe worker.
C24_ProgressDeliveredInOrder ==
    /\ ProgressOf(st_delivered) \o ProgressOf(st_queue) \o ProgressOf(st_ready)
          = EmittedItems
    /\ st_consumer = "finished" => ProgressOf(st_delivered) = EmittedItems
    /\ \A i \in 1..Len(st_emitted) : st_emitted[i].thread = "run_analysis"

C24_Witness ==
    /\ st_consumer = "finished"
    /\ st_pc = "returned"
    /\ Len(ProgressOf(st_delivered)) = 3 + 2 * MaxStreamProbes
    /\ ProgressOf(st_delivered) = EmittedItems

\* ========================================================================
\* runtime/charting.py: ChartRuntime.sample_evenly
\* ========================================================================
\* a row, as the value it compares by
SampleRows == {"a", "b", "c"}

Max(a, b) == IF a >= b THEN a ELSE b

\* data[::step]
every_nth(data, step) ==
    [k \in 1..((Len(data) + step - 1) \div step) |-> data[1 + (k - 1) * step]]

\* lines 178-188
sample_evenly(data, max_points) ==
    IF Len(data) <= max_points THEN data
    ELSE LET step == Max(1, Len(data) \div max_points)
             sampled == every_nth(data, step)
             with_last == IF sampled[Len(sampled)] # data[Len(data)]
                          THEN Append(sampled, data[Len(data)])
                          ELSE sampled
         IN  Take(with_last, max_points)

InitSample ==
    /\ smp_data = <<>> /\ smp_out = NoSampleOut
    /\ NotSampleIdle

\* one more row
SampleAddRow ==
    /\ ~ smp_out.called
    /\ Len(smp_data) < MaxSampleRows
    /\ \E row \in SampleRows : smp_data' = Append(smp_data, row)
    /\ UNCHANGED <<smp_out, notSample>>

\* sample_evenly(data, max_points)
SampleEvenly ==
    /\ ~ smp_out.called
    /\ \E max_points \in 1..MaxSamplePoints :
          smp_out' = [called |-> TRUE, max_points |-> max_points,
                      result |-> sample_evenly(smp_data, max_points)]
    /\ UNCHANGED <<smp_data, notSample>>

NextSample == SampleAddRow \/ SampleEvenly

SpecSample == InitSample /\ [][NextSample]_vars

\* ------------------------------------------------------------------------
\* Claims about sample_evenly
\* ------------------------------------------------------------------------
SampleStride == Max(1, Len(smp_data) \div smp_out.max_points)

\* the result is the first max_points rows taken at the stride from the first row
SampleIsStridePrefix ==
    /\ Len(smp_out.result) = smp_out.max_points
    /\ \A k \in 1..Len(smp_out.result) :
          smp_out.result[k] = smp_data[1 + (k - 1) * SampleStride]

\* C27: for a row list longer than the cap, sample_evenly returns at most cap
\* rows, taken at the stride len/cap from the first row, and the final input
\* row is one of them.
C27_SampleKeepsFinalRow ==
    smp_out.called /\ Len(smp_data) > smp_out.max_points =>
        /\ SampleIsStridePrefix
        /\ smp_data[Len(smp_data)] \in Range(smp_out.result)

\* What holds of C27: the result is the cap first rows at the stride; the final
\* row is among them only when it is such a row itself or equals one.
SampleIsStridePrefixOnly ==
    smp_out.called /\ Len(smp_data) > smp_out.max_points => SampleIsStridePrefix

\* ========================================================================
\* data_service.py: validate_sql / execute_safe_query
\* ========================================================================
\* A statement is the sequence of its tokens. A word token is a maximal run of
\* \w characters only when its neighbours are not word tokens: two adjacent
\* word tokens spell one longer word ("drop" "t" is the identifier dropt).
WordTokens == {"SELECT", "select", "WITH", "with", "drop", "read_csv", "t",
               "LIMIT", "1", "3"}
\* the tokens statements are typed from, one at a time
TypedTokens == {"SELECT", "with", "drop", "read_csv", "t", " ", ";", "-", "/", "*"}

\* str.upper()
Upper(tok) ==
    CASE tok = "select" -> "SELECT"
      [] tok = "with" -> "WITH"
      [] tok = "drop" -> "DROP"
      [] tok = "read_csv" -> "READ_CSV"
      [] tok = "t" -> "T"
      [] OTHER -> tok

UpperAll(q) == [i \in 1..Len(q) |-> Upper(q[i])]

\* str.strip(): leading and trailing whitespace removed
RECURSIVE LStrip(_)
LStrip(q) == IF q # <<>> /\ Head(q) = " " THEN LStrip(Tail(q)) ELSE q

RECURSIVE RStrip(_)
RStrip(q) ==
    IF q # <<>> /\ q[Len(q)] = " " THEN RStrip(SubSeq(q, 1, Len(q) - 1)) ELSE q

Strip(q) == RStrip(LStrip(q))

\* lines 56-60
normalize_sql(text) ==
    LET query == Strip(text)
    IN  IF query # <<>> /\ query[Len(query)] = ";"
        THEN Strip(SubSeq(query, 1, Len(query) - 1))
        ELSE query

\* COMMENT_PATTERN.search: "--" or "/*" anywhere
comment_pattern_search(q) ==
    \E i \in 1..(Len(q) - 1) :
        \/ q[i] = "-" /\ q[i + 1] = "-"
        \/ q[i] = "/" /\ q[i + 1] = "*"

\* re.search(r"\b(w1|w2|...)\b", q): one of the words, between word boundaries
word_pattern_search(q, words) ==
    \E i \in 1..Len(q) :
        /\ q[i] \in words
        /\ i = 1 \/ q[i - 1] \notin WordTokens
        /\ i = Len(q) \/ q[i + 1] \notin WordTokens

\* the keywords of FORBIDDEN_SQL_PATTERN and FORBIDDEN_IO_PATTERN that the model's
\* tokens can spell; both are searched in the upper-cased text, ignoring case
FORBIDDEN_SQL_WORDS == {"DROP"}
FORBIDDEN_IO_WORDS == {"READ_CSV"}

\* A plausible slip: the comment markers are not looked for
validate_sql_without_comment_check(text) ==
    LET query == normalize_sql(text)
        query_upper == UpperAll(query)
    IN  /\ query # <<>>
        /\ ";" \notin { query[i] : i \in 1..Len(query) }
        /\ query_upper[1] \in {"SELECT", "WITH"}
        /\ ~ word_pattern_search(query_upper, FORBIDDEN_SQL_WORDS)
        /\ ~ word_pattern_search(query_upper, FORBIDDEN_IO_WORDS)

\* lines 63-86
validate_sql(text) ==
    LET query == normalize_sql(text)
        query_upper == UpperAll(query)
    IN  /\ query # <<>>
        /\ ";" \notin { query[i] : i \in 1..Len(query) }
        /\ ~ comment_pattern_search(query)
        /\ query_upper[1] \in {"SELECT", "WITH"}
        /\ ~ word_pattern_search(query_upper, FORBIDDEN_SQL_WORDS)
        /\ ~ word_pattern_search(query_upper, FORBIDDEN_IO_WORDS)

\* A plausible slip: the cap is off by one
prepare_safe_query_off_by_one(text, max_rows) ==
    [select_all_from |-> normalize_sql(text), limit |-> max_rows + 1]

\* lines 89-91: SELECT * FROM (<query>) AS safe_query LIMIT <max_rows>
_prepare_safe_query(text, max_rows) ==
    [select_all_from |-> normalize_sql(text), limit |-> max_rows]

\* ---- the query engine, as far as row counts go -------------------------
NumVal(tok) == IF tok = "1" THEN 1 ELSE 3
InnerLimits == {"1", "3"}
PlainSelects == { <<"SELECT", " ", "t">>, <<"select", " ", "t">>,
                  <<"with", " ", "t", " ", "SELECT", " ", "t">> }
LimitedSelects ==
    { q \o <<" ", "LIMIT", " ", k>> : q \in PlainSelects, k \in InnerLimits }

\* the rows a statement yields over a table of table_rows rows; -1: the engine
\* raises (the text is not a query it can run)
engine_rows(q, table_rows) ==
    IF q \in PlainSelects THEN table_rows
    ELSE IF q \in LimitedSelects
         THEN Min(table_rows, NumVal(q[Len(q)]))
    ELSE -1

\* conn.execute(safe_query).df()
engine_execute(safe_query, table_rows) ==
    LET inner == engine_rows(safe_query.select_all_from, table_rows)
    IN  IF inner < 0 THEN -1 ELSE Min(inner, safe_query.limit)

\* lines 94-104
execute_safe_query(text, max_rows, table_rows) ==
    IF ~ validate_sql(text)
    THEN [NoSqlOut EXCEPT !.status = "unsafe"]
    ELSE LET safe_query == _prepare_safe_query(text, max_rows)
             rows == engine_execute(safe_query, table_rows)
         IN  [status |-> IF rows < 0 THEN "failed" ELSE "returned",
              max_rows |-> max_rows, table_rows |-> table_rows,
              rows |-> IF rows < 0 THEN 0 ELSE rows,
              sent |-> <<safe_query>>]

\* statements pasted whole: the well-formed ones, bare or followed by ";" or blanks
SampleStatements ==
    LET qs == PlainSelects \cup LimitedSelects
    IN  qs \cup { q \o <<";">> : q \in qs } \cup { <<" ">> \o q \o <<" ", ";", " ">> : q \in qs }

InitSql == SqlIdle /\ NotSqlIdle

SqlType ==
    /\ sql_out = NoSqlOut
    /\ Len(sql) < MaxSqlLen
    /\ \E tok \in TypedTokens : sql' = Append(sql, tok)
    /\ UNCHANGED <<sql_out, notSql>>

SqlPaste ==
    /\ sql_out = NoSqlOut
    /\ sql = <<>>
    /\ \E q \in SampleStatements : sql' = q
    /\ UNCHANGED <<sql_out, notSql>>

ExecuteSafeQuery ==
    /\ sql_out = NoSqlOut
    /\ \E max_rows \in 0..MaxQueryCap, table_rows \in 0..MaxTableRows :
          sql_out' = execute_safe_query(sql, max_rows, table_rows)
    /\ UNCHANGED <<sql, notSql>>

NextSql == SqlType \/ SqlPaste \/ ExecuteSafeQuery

SpecSql == InitSql /\ [][NextSql]_vars

\* ------------------------------------------------------------------------
\* Claims about validate_sql / execute_safe_query
\* ------------------------------------------------------------------------
SqlCalled == sql_out.status # "idle"
Normalized == normalize_sql(sql)

\* C12: for an accepted statement and any max_rows, execute_safe_query returns at
\* most max_rows rows, and exactly max_rows rows when the statement itself yields
\* at least max_rows rows, whatever LIMIT the statement carries.
C12_RowCapEnforced ==
    sql_out.status = "returned" =>
        /\ sql_out.rows <= sql_out.max_rows
        /\ engine_rows(Normalized, sql_out.table_rows) >= sql_out.max_rows
              => sql_out.rows = sql_out.max_rows

\* C12 witness: a statement with its own LIMIT 3 over a larger table, capped at 2
C12_Witness ==
    /\ sql_out.status = "returned"
    /\ Normalized \in LimitedSelects
    /\ NumVal(Normalized[Len(Normalized)]) = 3
    /\ sql_out.table_rows > 3
    /\ sql_out.max_rows = 2
    /\ sql_out.rows = 2

\* the statements C13 says are rejected, in the claim's words
C13_MustReject(q) ==
    \/ q = <<>>
    \/ \E i \in 1..Len(q) : q[i] = ";"
    \/ \E i \in 1..(Len(q) - 1) : <<q[i], q[i + 1]>> \in {<<"-", "-">>, <<"/", "*">>}
    \/ q # <<>> /\ q[1] \notin {"SELECT", "select", "WITH", "with"}
    \/ \E i \in 1..Len(q) :
          /\ q[i] \in {"drop", "read_csv"}
          /\ i = 1 \/ q[i - 1] \notin WordTokens
          /\ i = Len(q) \/ q[i + 1] \notin WordTokens

\* C13: validate_sql rejects every statement that, trimmed and without one
\* trailing ';', is empty, holds ';', '--' or '/*', does not start with SELECT or
\* WITH, or holds a forbidden keyword or file-I/O function name; it accepts a
\* plain SELECT and a WITH ... SELECT; a rejected statement raises with
\* nothing sent to the engine connection.
C13_UnsafeSqlRejected ==
    SqlCalled =>
        /\ C13_MustReject(Normalized) => sql_out.status = "unsafe"
        /\ sql_out.status = "unsafe" => sql_out.sent = <<>>
        /\ Normalized \in PlainSelects => sql_out.status = "returned"

\* C13 witness: "SELECT--" was rejected before anything reached the engine
C13_Witness ==
    /\ sql = <<"SELECT", "-", "-">>
    /\ sql_out.status = "unsafe"
    /\ sql_out.sent = <<>>

\* ========================================================================
\* ai_service.py: _normalize_exploration_plan
\* ========================================================================
\* str.lower()
Lower(tok) ==
    CASE tok = "SELECT" -> "select"
      [] tok = "WITH" -> "with"
      [] tok = "LIMIT" -> "limit"
      [] OTHER -> tok

LowerAll(q) == [i \in 1..Len(q) |-> Lower(q[i])]

\* probe_id.strip(): a probe id is [name, padded]; padding is surrounding blanks
StripId(id) == [id EXCEPT !.padded = FALSE]
BlankId == [name |-> "", padded |-> FALSE]

\* a probe the planning oracle may return: its id, its SQL text, and whether its
\* question, analysis_type, rationale and chart_hint are all valid
RawProbe(id, text, fields_ok) == [probe_id |-> id, sql |-> text, fields_ok |-> fields_ok]

RawProbeIds == { [name |-> n, padded |-> p] : n \in {"p1", "p2"}, p \in BOOLEAN }
                  \ { [name |-> "p2", padded |-> TRUE] }
RawSqlTexts == { <<"SELECT", " ", "t">>,
                 <<"select", " ", "t", " ">>,
                 <<"SELECT", " ", " ", "t">>,
                 <<"SELECT", " ", "u">> }
\* the probes the harness draws from: well-formed ones, and one of each defect
RawProbes ==
    { RawProbe(id, text, TRUE) : id \in RawProbeIds, text \in RawSqlTexts }
      \cup { RawProbe(BlankId, <<"SELECT", " ", "t">>, TRUE),
             RawProbe([name |-> "p1", padded |-> FALSE], <<" ">>, TRUE),
             RawProbe([name |-> "p1", padded |-> FALSE], <<"SELECT", " ", "u">>, FALSE) }

\* sql_signature = probe_sql.strip().lower()
sql_signature(text) == LowerAll(Strip(text))

\* lines 137-180: the loop over the probes, from probe i on
RECURSIVE normalize_probes(_, _, _, _, _)
normalize_probes(probes, i, probe_ids, sql_signatures, normalized) ==
    IF i > Len(probes) THEN [status |-> "accepted", probes |-> normalized, max_probes |-> 0]
    ELSE LET probe == probes[i]
             probe_id == StripId(probe.probe_id)
         IN  IF probe_id = BlankId
             THEN [status |-> "missing_field", probes |-> <<>>, max_probes |-> 0]
             ELSE IF probe_id \in probe_ids
             THEN [status |-> "duplicate_probe_id", probes |-> <<>>, max_probes |-> 0]
             ELSE IF Strip(probe.sql) = <<>> \/ ~ probe.fields_ok
             THEN [status |-> "missing_field", probes |-> <<>>, max_probes |-> 0]
             ELSE IF sql_signature(probe.sql) \in sql_signatures
             THEN [status |-> "duplicate_sql", probes |-> <<>>, max_probes |-> 0]
             ELSE normalize_probes(
                      probes, i + 1,
                      probe_ids \cup {probe_id},
                      sql_signatures \cup {sql_signature(probe.sql)},
                      Append(normalized,
                             RawProbe(probe_id, Strip(probe.sql), TRUE)))

\* lines 122-185
_normalize_exploration_plan(probes, max_probes) ==
    IF Len(probes) < 2 \/ Len(probes) > max_probes
    THEN [status |-> "size", probes |-> <<>>, max_probes |-> 0]
    ELSE normalize_probes(probes, 1, {}, {}, <<>>)

InitPlan ==
    /\ raw_plan = <<>> /\ plan_out = NoPlanOut
    /\ NotPlanIdle

\* the oracle's plan, probe by probe
PlanAddProbe ==
    /\ plan_out = NoPlanOut
    /\ Len(raw_plan) < MaxRawPlanLen
    /\ \E probe \in RawProbes : raw_plan' = Append(raw_plan, probe)
    /\ UNCHANGED <<plan_out, notPlan>>

\* plan_exploration(..., max_probes): the oracle's plan is normalized
NormalizePlan ==
    /\ plan_out = NoPlanOut
    /\ \E max_probes \in 2..MaxRawPlanLen :
          plan_out' = [_normalize_exploration_plan(raw_plan, max_probes)
                          EXCEPT !.max_probes = max_probes]
    /\ UNCHANGED <<raw_plan, notPlan>>

NextPlan == PlanAddProbe \/ NormalizePlan

SpecPlan == InitPlan /\ [][NextPlan]_vars

\* ------------------------------------------------------------------------
\* Claims about _normalize_exploration_plan
\* ------------------------------------------------------------------------
\* a text without its whitespace and with its letters lower-cased
RECURSIVE WithoutBlanks(_)
WithoutBlanks(q) ==
    IF q = <<>> THEN <<>>
    ELSE (IF Head(q) = " " THEN <<>> ELSE <<Lower(Head(q))>>) \o WithoutBlanks(Tail(q))

\* C14: plan_exploration returns a plan only if it has between 2 and max_probes
\* probes, the probe ids are pairwise distinct, the SQL texts are pairwise
\* distinct when letter case and whitespace differences are ignored, and every
\* probe has every required field.
C14_AcceptedPlanWellFormed ==
    plan_out.status = "accepted" =>
        /\ Len(raw_plan) >= 2 /\ Len(raw_plan) <= plan_out.max_probes
        /\ \A i, j \in 1..Len(raw_plan) :
              i # j => /\ StripId(raw_plan[i].probe_id) # StripId(raw_plan[j].probe_id)
                       /\ WithoutBlanks(raw_plan[i].sql) # WithoutBlanks(raw_plan[j].sql)
        /\ \A i \in 1..Len(raw_plan) :
              /\ raw_plan[i].fields_ok
              /\ StripId(raw_plan[i].probe_id) # BlankId
              /\ WithoutBlanks(raw_plan[i].sql) # <<>>

\* What holds of C14: the same with SQL texts compared after trimming and
\* lower-casing only, and every other plan is rejected.
AcceptedPlanWellFormedUpToTrim ==
    plan_out.status # "idle" =>
        ( plan_out.status = "accepted" <=>
            /\ Len(raw_plan) >= 2 /\ Len(raw_plan) <= plan_out.max_probes
            /\ \A i, j \in 1..Len(raw_plan) :
                  i # j => /\ StripId(raw_plan[i].probe_id) # StripId(raw_plan[j].probe_id)
                           /\ LowerAll(Strip(raw_plan[i].sql)) # LowerAll(Strip(raw_plan[j].sql))
            /\ \A i \in 1..Len(raw_plan) :
                  /\ raw_plan[i].fields_ok
                  /\ StripId(raw_plan[i].probe_id) # BlankId
                  /\ Strip(raw_plan[i].sql) # <<>> )

\* ========================================================================
\* main.py: run_analysis_sprint (the batch of sprint analyses)
\* ========================================================================
\* question.strip() and candidate.lower() on the questions of the model
QStrip(q) == IF q = " q1" THEN "q1" ELSE IF q = " " THEN "" ELSE q
QLower(q) == IF q = "Q1" THEN "q1" ELSE q
RawQuestions == {"q1", "Q1", " q1", " ", "q2"}

\* lines 338-349: blank questions and repeats (ignoring case) are dropped
RECURSIVE clean_from(_, _, _)
clean_from(questions, seen, cleaned_questions) ==
    IF questions = <<>> THEN cleaned_questions
    ELSE LET candidate == QStrip(Head(questions))
             key == QLower(candidate)
         IN  IF candidate = "" \/ key \in seen
             THEN clean_from(Tail(questions), seen, cleaned_questions)
             ELSE clean_from(Tail(questions), seen \cup {key},
                             Append(cleaned_questions, candidate))

\* lines 338-351
clean_questions(questions, max_questions) ==
    Take(clean_from(questions, {}, <<>>), max_questions)

NoResponse == [question_count |-> 0, completed_count |-> 0, failed_count |-> 0,
               results |-> <<>>, failures |-> <<>>]

InitSprint ==
    /\ sp_pc = "request" /\ sp_questions = <<>> /\ sp_cleaned = <<>>
    /\ sp_results = <<>> /\ sp_failures = <<>> /\ sp_response = NoResponse
    /\ NotSprintIdle

\* request.questions, one more question
SprintAddQuestion ==
    /\ sp_pc = "request"
    /\ Len(sp_questions) < MaxSprintQuestions
    /\ \E q \in RawQuestions : sp_questions' = Append(sp_questions, q)
    /\ UNCHANGED <<sp_pc, sp_cleaned, sp_results, sp_failures, sp_response, notSprint>>

\* lines 338-353: the questions are cleaned; none left is a 400
SprintClean ==
    /\ sp_pc = "request"
    /\ sp_questions # <<>>
    /\ \E max_questions \in 1..MaxSprintQuestions :
          LET cleaned_questions == clean_questions(sp_questions, max_questions)
          IN  /\ sp_cleaned' = cleaned_questions
              /\ sp_pc' = IF cleaned_questions = <<>> THEN "http_400" ELSE "loop"
    /\ UNCHANGED <<sp_questions, sp_results, sp_failures, sp_response, notSprint>>

\* for question in cleaned_questions
sprint_loop_done(done, cleaned_questions) == done = Len(cleaned_questions)

\* lines 357-368: run_analysis(sprint_mode=True) of the next question returns
\* or raises
SprintAnalyse ==
    /\ sp_pc = "loop"
    /\ ~ sprint_loop_done(Len(sp_results) + Len(sp_failures), sp_cleaned)
    /\ LET question == sp_cleaned[Len(sp_results) + Len(sp_failures) + 1]
       IN  \E raised \in BOOLEAN :
              IF raised
              THEN /\ sp_failures' = Append(sp_failures, question)
                   /\ UNCHANGED sp_results
              ELSE /\ sp_results' = Append(sp_results, question)
                   /\ UNCHANGED sp_failures
    /\ UNCHANGED <<sp_pc, sp_questions, sp_cleaned, sp_response, notSprint>>

\* lines 370-385: no result at all is a 500, else the response is returned
SprintRespond ==
    /\ sp_pc = "loop"
    /\ sprint_loop_done(Len(sp_results) + Len(sp_failures), sp_cleaned)
    /\ IF sp_results = <<>>
       THEN /\ sp_pc' = "http_500"
            /\ UNCHANGED sp_response
       ELSE /\ sp_pc' = "returned"
            /\ sp_response' = [question_count |-> Len(sp_cleaned),
                               completed_count |-> Len(sp_results),
                               failed_count |-> Len(sp_failures),
                               results |-> sp_results,
                               failures |-> sp_failures]
    /\ UNCHANGED <<sp_questions, sp_cleaned, sp_results, sp_failures, notSprint>>

NextSprint == SprintAddQuestion \/ SprintClean \/ SprintAnalyse \/ SprintRespond

SpecSprint == InitSprint /\ [][NextSprint]_vars

\* ------------------------------------------------------------------------
\* Claims about run_analysis_sprint
\* ------------------------------------------------------------------------
SprintOver == sp_pc \in {"returned", "http_500"}

\* C17: in a sprint batch over n cleaned questions the failure of one question
\* never prevents the remaining questions from being analysed, and for every
\* combination of per-question outcomes the batch returns the successes and the
\* failures with completed_count + failed_count = n.
C17_SprintIsolatesFailures ==
    SprintOver =>
        /\ Len(sp_results) + Len(sp_failures) = Len(sp_cleaned)
        /\ sp_pc = "returned"
        /\ sp_response.results = sp_results
        /\ sp_response.failures = sp_failures
        /\ sp_response.completed_count + sp_response.failed_count = Len(sp_cleaned)

\* What holds of C17: every cleaned question is analysed exactly once, in order,
\* whatever the outcomes of the others; the batch returns both lists with
\* completed_count + failed_count = n whenever at least one analysis succeeded.
SprintAnalysesEveryQuestion ==
    SprintOver =>
        /\ Len(sp_results) + Len(sp_failures) = Len(sp_cleaned)
        /\ Range(sp_results) \cup Range(sp_failures) = Range(sp_cleaned)
        /\ sp_results # <<>> =>
              /\ sp_pc = "returned"
              /\ sp_response.results = sp_results
              /\ sp_response.failures = sp_failures
              /\ sp_response.completed_count + sp_response.failed_count
                    = Len(sp_cleaned)

\* ========================================================================
\* DataService: the session registry
\* ========================================================================
\* connection.close() on each connection of cs; an in-memory database goes with it
CloseAll(cn, cs) ==
    [c \in 1..Len(cn) |->
        IF c \in cs
        THEN [open |-> FALSE, closes |-> cn[c].closes + 1, artifacts |-> <<>>]
        ELSE cn[c]]

IndexOf(reg, sid) == { i \in 1..Len(reg) : reg[i].sid = sid }

\* lines 117-121: the sessions whose last access is older than the TTL
expired(reg, t) == { i \in 1..Len(reg) : t - reg[i].last_accessed_at > SessionTTL }

\* lines 115-127. A registry state is [sessions, conns].
_cleanup_expired_sessions(st, t) ==
    LET ex == expired(st.sessions, t)
    IN  [sessions |-> DropIndexes(st.sessions, ex),
         conns |-> CloseAll(st.conns, { st.sessions[i].connection : i \in ex })]

\* lines 589-597
delete_session(st, sid) ==
    LET at == IndexOf(st.sessions, sid)
    IN  IF at = {} THEN st
        ELSE [sessions |-> DropIndexes(st.sessions, at),
              conns |-> CloseAll(st.conns, { st.sessions[i].connection : i \in at })]

\* min(self.sessions.keys(), key=last_accessed_at): the first key of minimal value
oldest_id(reg) ==
    LET first == CHOOSE i \in 1..Len(reg) :
                    /\ \A j \in 1..Len(reg) :
                          reg[i].last_accessed_at <= reg[j].last_accessed_at
                    /\ \A j \in 1..(i - 1) :
                          reg[i].last_accessed_at < reg[j].last_accessed_at
    IN  reg[first].sid

\* A plausible slip: the cap is enforced one session too late
enforce_session_cap_late(st) ==
    IF Len(st.sessions) <= MaxSessions THEN st
    ELSE delete_session(st, oldest_id(st.sessions))

\* A plausible slip: the cap is never enforced
enforce_session_cap_never(st) == st

\* lines 132-141
_enforce_session_cap(st) ==
    IF Len(st.sessions) < MaxSessions THEN st
    ELSE delete_session(st, oldest_id(st.sessions))

\* self.sessions[session_id] = {...}: an existing key keeps its place in the dict
PutSession(reg, entry) ==
    IF IndexOf(reg, entry.sid) = {} THEN Append(reg, entry)
    ELSE [i \in 1..Len(reg) |-> IF reg[i].sid = entry.sid THEN entry ELSE reg[i]]

\* session["last_accessed_at"] = datetime.now()
Touch(reg, sid, t) ==
    [i \in 1..Len(reg) |->
        IF reg[i].sid = sid THEN [reg[i] EXCEPT !.last_accessed_at = t] ELSE reg[i]]

\* lines 326-331
_get_session_connection(st, session_id, t) ==
    LET cleaned == _cleanup_expired_sessions(st, t)
        at == IndexOf(cleaned.sessions, session_id)
    IN  IF at = {}
        THEN [st |-> cleaned, error |-> "not_found", connection |-> 0]
        ELSE [st |-> [cleaned EXCEPT !.sessions = Touch(cleaned.sessions, session_id, t)],
              error |-> "none",
              connection |-> cleaned.sessions[CHOOSE i \in at : TRUE].connection]

\* lines 571-587
get_session_info(st, session_id, t) ==
    LET cleaned == _cleanup_expired_sessions(st, t)
        at == IndexOf(cleaned.sessions, session_id)
    IN  IF at = {}
        THEN [st |-> cleaned, error |-> "not_found", returned |-> <<>>]
        ELSE LET touched == Touch(cleaned.sessions, session_id, t)
                 session == touched[CHOOSE i \in at : TRUE]
             IN  [st |-> [cleaned EXCEPT !.sessions = touched],
                  error |-> "none",
                  returned |-> <<[session_id |-> session_id,
                                  row_count |-> session.row_count,
                                  created_at |-> session.created_at,
                                  last_accessed_at |-> session.last_accessed_at]>>]

\* lines 404-417: the query runs over the session's uploaded table
execute_query(st, session_id, text, max_rows, t) ==
    LET got == _get_session_connection(st, session_id, t)
    IN  IF got.error # "none"
        THEN [st |-> got.st, error |-> got.error, returned |-> <<>>]
        ELSE LET session == got.st.sessions[CHOOSE i \in IndexOf(got.st.sessions, session_id) : TRUE]
                 out == execute_safe_query(text, max_rows, session.row_count)
             IN  [st |-> got.st,
                  error |-> IF out.status = "returned" THEN "none" ELSE out.status,
                  returned |-> IF out.status = "returned" THEN <<out.rows>> ELSE <<>>]

\* ---- the durable summary store (table analysis_probe_artifacts) --------
\* json.dumps(value, default=str): a value JSON has no type for becomes its str()
json_dumps(cells) ==
    [i \in 1..Len(cells) |->
        IF cells[i].kind \in {"int", "str", "null"} THEN cells[i]
        ELSE [kind |-> "str", v |-> cells[i].v]]

\* _safe_json_loads of a text json.dumps produced
json_loads(text) == text

\* lines 468-494: the row one artifact is stored as; probe id 0 is the blank id
artifact_row(run_id, artifact) ==
    [run_id |-> run_id,
     probe_id |-> artifact.probe_id,
     row_count |-> artifact.row_count,
     chart_type |-> artifact.chart_type,
     columns_json |-> artifact.columns,
     sample_rows_json |-> json_dumps(artifact.sample_rows)]

RECURSIVE artifact_rows(_, _)
artifact_rows(run_id, artifacts) ==
    IF artifacts = <<>> THEN <<>>
    ELSE (IF Head(artifacts).probe_id = 0 THEN <<>>
          ELSE <<artifact_row(run_id, Head(artifacts))>>)
         \o artifact_rows(run_id, Tail(artifacts))

\* DELETE FROM analysis_probe_artifacts WHERE run_id = ?
delete_run(table, run_id) ==
    DropIndexes(table, { i \in 1..Len(table) : table[i].run_id = run_id })

\* A plausible slip: the earlier artifacts of the run are not deleted
persist_rows_appending(table, run_id, artifacts) ==
    table \o artifact_rows(run_id, artifacts)

\* lines 433-434 and 468-494
persist_rows(table, run_id, artifacts) ==
    delete_run(table, run_id) \o artifact_rows(run_id, artifacts)

\* lines 419-495; run id 0 is a blank run id
persist_analysis_artifacts(st, session_id, run_id, artifacts, t) ==
    IF run_id = 0 THEN [st |-> st, error |-> "run_id_required"]
    ELSE IF artifacts = <<>> THEN [st |-> st, error |-> "none"]
    ELSE LET got == _get_session_connection(st, session_id, t)
         IN  IF got.error # "none" THEN [st |-> got.st, error |-> got.error]
             ELSE [st |-> [got.st EXCEPT !.conns[got.connection].artifacts =
                              persist_rows(@, run_id, artifacts)],
                   error |-> "none"]

\* ... WHERE run_id = ? ORDER BY probe_id ASC (rows of one probe id keep their order)
select_run(table, run_id) ==
    LET mine == DropIndexes(table, { i \in 1..Len(table) : table[i].run_id # run_id })
        rank(i) == Cardinality({ j \in 1..Len(mine) :
                                    \/ mine[j].probe_id < mine[i].probe_id
                                    \/ mine[j].probe_id = mine[i].probe_id /\ j < i })
    IN  [k \in 1..Len(mine) |-> mine[CHOOSE i \in 1..Len(mine) : rank(i) = k - 1]]

\* lines 524-567: the summary built from one row
row_summary(row) ==
    [probe_id |-> row.probe_id,
     row_count |-> row.row_count,
     chart_type |-> IF row.chart_type = "" THEN "bar" ELSE row.chart_type,
     columns |-> row.columns_json,
     sample_rows |-> json_loads(row.sample_rows_json)]

\* lines 497-569
load_analysis_artifact_summaries(st, session_id, run_id, t) ==
    IF run_id = 0 THEN [st |-> st, error |-> "none", returned |-> <<>>]
    ELSE LET got == _get_session_connection(st, session_id, t)
         IN  IF got.error # "none"
             THEN [st |-> got.st, error |-> got.error, returned |-> <<>>]
             ELSE LET records == select_run(got.st.conns[got.connection].artifacts, run_id)
                  IN  [st |-> got.st, error |-> "none",
                       returned |-> [i \in 1..Len(records) |-> row_summary(records[i])]]

\* the number of rows stored for a run in the database of a session (0 if none)
stored_rows(st, session_id, run_id) ==
    LET at == IndexOf(st.sessions, session_id)
    IN  IF at = {} THEN 0
        ELSE Len(select_run(
                 st.conns[st.sessions[CHOOSE i \in at : TRUE].connection].artifacts,
                 run_id))

\* an artifact as _run_multi_step_exploration hands it over (lines 386-399): the
\* cells are jsonable_encoder output
Artifact(probe_id, version) ==
    [probe_id |-> probe_id,
     row_count |-> IF version = 1 THEN 2 ELSE 0,
     chart_type |-> IF version = 1 THEN "bar" ELSE "line",
     columns |-> IF version = 1 THEN <<"region", "revenue">> ELSE <<>>,
     sample_rows |-> IF version = 1
                     THEN <<[kind |-> "str", v |-> "US"], [kind |-> "int", v |-> "300"]>>
                     ELSE <<[kind |-> "null", v |-> ""]>>]

\* the artifact lists persisted in the model: none, one probe, two probes out of
\* id order, a blank probe id, one id twice with different content
ArtifactLists ==
    { <<>>, <<Artifact(1, 2)>>,
      <<Artifact(2, 1), Artifact(1, 1)>>,
      <<Artifact(0, 1), Artifact(1, 1)>>,
      <<Artifact(1, 1), Artifact(1, 2)>> }

\* run ids; 0 is a blank run id
RunIds == 0..2

InitSessions ==
    /\ NotDsIdle
    /\ sessions = <<>> /\ conns = <<>> /\ now = 0 /\ last_op = NoOp

\* lines 333-396. session_id None (0 here) draws a fresh uuid; file_rows is the
\* number of rows of the uploaded file, -1 for a file that cannot be loaded. When
\* a step after duckdb.connect raises, the except branch re-raises and the
\* connection opened at line 351 is neither closed nor registered.
UploadFile ==
    /\ Len(conns) < MaxUploads
    /\ \E session_id \in 0..Len(conns), file_rows \in {-1, 0, UploadedRows} :
          LET cleaned == _cleanup_expired_sessions(
                             [sessions |-> sessions, conns |-> conns], now)
              capped == _enforce_session_cap(cleaned)
              sid == IF session_id = 0 THEN Len(conns) + 1 ELSE session_id
              conn == Len(conns) + 1
              loaded == file_rows > 0
          IN  /\ conns' = Append(capped.conns,
                                 [open |-> TRUE, closes |-> 0, artifacts |-> <<>>])
              /\ sessions' =
                    IF loaded
                    THEN PutSession(capped.sessions,
                                    [sid |-> sid, connection |-> conn,
                                     row_count |-> file_rows,
                                     created_at |-> now,
                                     last_accessed_at |-> now])
                    ELSE capped.sessions
              /\ last_op' = [NoOp EXCEPT !.op = "upload", !.sid = sid,
                                         !.ok = loaded,
                                         !.error = IF loaded THEN "none" ELSE "upload_failed",
                                         !.evicted = Range(cleaned.sessions)
                                                       \ Range(capped.sessions)]
    /\ UNCHANGED <<now, notDs>>

\* GET /session/{id}: get_session_info
GetSessionInfo ==
    /\ \E session_id \in 1..(Len(conns) + 1) :
          LET r == get_session_info([sessions |-> sessions, conns |-> conns],
                                    session_id, now)
          IN  /\ sessions' = r.st.sessions
              /\ conns' = r.st.conns
              /\ last_op' = [NoOp EXCEPT !.op = "get_session_info", !.sid = session_id,
                                         !.ok = r.error = "none", !.error = r.error,
                                         !.returned = r.returned]
    /\ UNCHANGED <<now, notDs>>

\* execute_query with an accepted or a rejected statement
ExecuteQuery ==
    /\ \E session_id \in 1..(Len(conns) + 1),
          text \in {<<"SELECT", " ", "t">>, <<"drop", " ", "t">>} :
          LET r == execute_query([sessions |-> sessions, conns |-> conns],
                                 session_id, text, SessionQueryCap, now)
          IN  /\ sessions' = r.st.sessions
              /\ conns' = r.st.conns
              /\ last_op' = [NoOp EXCEPT !.op = "execute_query", !.sid = session_id,
                                         !.ok = r.error = "none", !.error = r.error,
                                         !.returned = r.returned]
    /\ UNCHANGED <<now, notDs>>

\* persist_analysis_artifacts
PersistAnalysisArtifacts ==
    /\ \E session_id \in 1..(Len(conns) + 1), run_id \in RunIds,
          artifacts \in ArtifactLists :
          LET r == persist_analysis_artifacts([sessions |-> sessions, conns |-> conns],
                                              session_id, run_id, artifacts, now)
          IN  /\ sessions' = r.st.sessions
              /\ conns' = r.st.conns
              /\ last_op' = [NoOp EXCEPT !.op = "persist", !.sid = session_id,
                                         !.ok = r.error = "none", !.error = r.error,
                                         !.run_id = run_id, !.artifacts = artifacts,
                                         !.replaced = stored_rows(
                                             [sessions |-> sessions, conns |-> conns],
                                             session_id, run_id)]
    /\ UNCHANGED <<now, notDs>>

\* load_analysis_artifact_summaries
LoadAnalysisArtifactSummaries ==
    /\ \E session_id \in 1..(Len(conns) + 1), run_id \in RunIds :
          LET r == load_analysis_artifact_summaries(
                       [sessions |-> sessions, conns |-> conns], session_id, run_id, now)
          IN  /\ sessions' = r.st.sessions
              /\ conns' = r.st.conns
              /\ last_op' = [NoOp EXCEPT !.op = "load", !.sid = session_id,
                                         !.ok = r.error = "none", !.error = r.error,
                                         !.run_id = run_id, !.returned = r.returned]
    /\ UNCHANGED <<now, notDs>>

\* lines 589-597, called for DELETE /session/{id}
DeleteSession ==
    /\ \E session_id \in 1..Len(conns) :
          LET after == delete_session([sessions |-> sessions, conns |-> conns],
                                      session_id)
          IN  /\ conns' = after.conns
              /\ sessions' = after.sessions
              /\ last_op' = [NoOp EXCEPT !.op = "delete", !.sid = session_id,
                                         !.ok = IndexOf(sessions, session_id) # {}]
    /\ UNCHANGED <<now, notDs>>

\* time passes
Tick ==
    /\ now < MaxTime
    /\ now' = now + 1
    /\ UNCHANGED <<sessions, conns, last_op, notDs>>

\* the life cycle of sessions: upload, access, deletion, expiry, eviction
NextSessions ==
    \/ UploadFile
    \/ GetSessionInfo
    \/ DeleteSession
    \/ Tick

SpecSessions == InitSessions /\ [][NextSessions]_vars

\* one uploaded session and the operations on it: the state upload_file leaves
\* when it registers the first session
InitStore ==
    /\ NotDsIdle
    /\ sessions = <<[sid |-> 1, connection |-> 1, row_count |-> UploadedRows,
                     created_at |-> 0, last_accessed_at |-> 0]>>
    /\ conns = <<[open |-> TRUE, closes |-> 0, artifacts |-> <<>>]>>
    /\ now = 0
    /\ last_op = [NoOp EXCEPT !.op = "upload", !.sid = 1]

NextStore ==
    \/ GetSessionInfo
    \/ ExecuteQuery
    \/ PersistAnalysisArtifacts
    \/ LoadAnalysisArtifactSummaries
    \/ DeleteSession
    \/ Tick

SpecStore == InitStore /\ [][NextStore]_vars

\* ------------------------------------------------------------------------
\* Claims about session access and the durable summary store
\* ------------------------------------------------------------------------
AccessOps == {"get_session_info", "execute_query", "persist", "load"}

\* C11: get_session_info, execute_query, persist_analysis_artifacts and
\* load_analysis_artifact_summaries called with a session id that is absent,
\* deleted or expired fail with the 'not found or expired' error. (No operation
\* creates the session it is called with, so a session that is absent after the
\* call was absent, or expired, when the call was made.)
C11_AbsentSessionFails ==
    (last_op.op \in AccessOps /\ IndexOf(sessions, last_op.sid) = {}) =>
        last_op.error = "not_found"

\* What holds of C11. The calls that reach _get_session_connection: every
\* get_session_info and execute_query, a load with a non-blank run id, a persist
\* with a non-blank run id and at least one artifact.
LooksUpSession(op) ==
    \/ op.op \in {"get_session_info", "execute_query"}
    \/ op.op = "load" /\ op.run_id # 0
    \/ op.op = "persist" /\ op.run_id # 0 /\ op.artifacts # <<>>

\* Such a call fails with 'not found or expired' when the session is absent ...
LookupOfAbsentSessionFails ==
    (LooksUpSession(last_op) /\ IndexOf(sessions, last_op.sid) = {}) =>
        last_op.error = "not_found"

\* ... and when it succeeds it changes nothing in the session entry except
\* last_accessed_at, which becomes the current time.
AccessOnlyBumps ==
    [][ (LooksUpSession(last_op') /\ last_op' # last_op /\ last_op'.ok) =>
          \E i \in 1..Len(sessions), j \in 1..Len(sessions') :
              /\ sessions[i].sid = last_op'.sid
              /\ sessions'[j].sid = last_op'.sid
              /\ sessions'[j] = [sessions[i] EXCEPT !.last_accessed_at = now] ]_vars

\* what C16 expects load to return for one artifact
C16_Expected(artifact) ==
    [probe_id |-> artifact.probe_id, row_count |-> artifact.row_count,
     chart_type |-> artifact.chart_type, columns |-> artifact.columns,
     sample_rows |-> artifact.sample_rows]

C16_Count(seq, x) == Cardinality({ i \in 1..Len(seq) : seq[i] = x })

Referenced == { sessions[i].connection : i \in 1..Len(sessions) }

\* C9: every connection upload_file opened is closed exactly once: never closed
\* twice, and not left open once no session entry refers to it.
C9_ConnectionsClosedExactlyOnce ==
    \A c \in 1..Len(conns) :
        /\ conns[c].closes <= 1
        /\ conns[c].open => c \in Referenced

\* C10: an upload_file call made while the number of non-expired sessions has
\* reached max_sessions evicts exactly one session, one of oldest last access; a
\* call made below max_sessions evicts none.
C10_EvictsOldestAtCap ==
    [][ last_op'.op = "upload" /\ Len(conns') = Len(conns) + 1 =>
          LET live == { i \in 1..Len(sessions) :
                          now - sessions[i].last_accessed_at <= SessionTTL }
          IN  IF Cardinality(live) >= MaxSessions
              THEN \E i \in live :
                      /\ last_op'.evicted = {sessions[i]}
                      /\ \A j \in live : sessions[i].last_accessed_at
                                            <= sessions[j].last_accessed_at
                      /\ sessions[i].connection \notin
                            { sessions'[k].connection : k \in 1..Len(sessions') }
                      /\ ~ conns'[sessions[i].connection].open
              ELSE last_op'.evicted = {} ]_vars

\* C10 witness: an upload at the cap evicted the older of two live sessions, the
\* one that had been registered last
C10_Witness ==
    /\ last_op.op = "upload"
    /\ last_op.ok
    /\ \E e \in last_op.evicted :
          /\ e.sid = 2
          /\ ~ conns[e.connection].open
          /\ \E i \in 1..Len(sessions) :
                sessions[i].sid = 1 /\ sessions[i].last_accessed_at > e.last_accessed_at
    /\ Len(sessions) = MaxSessions

\* C28: after any sequence of uploads, session accesses and deletions the
\* registry holds at most max_sessions sessions.
C28_SessionCountCapped == Len(sessions) <= MaxSessions

\* C28 witness: an upload at the cap evicted a session and registered its own,
\* and the registry is full again
C28_Witness ==
    /\ last_op.op = "upload"
    /\ last_op.ok
    /\ last_op.evicted # {}
    /\ \A e \in last_op.evicted : now - e.last_accessed_at <= SessionTTL
    /\ Len(sessions) = MaxSessions

\* an upload_file call that failed: the step opened a connection and raised
FailedUpload ==
    /\ last_op'.op = "upload"
    /\ Len(conns') = Len(conns) + 1
    /\ ~ last_op'.ok

\* C29: a failed upload_file call leaves the registry as it was apart from
\* removing the expired sessions: no live session is evicted or closed, no
\* session is registered.
C29_FailedUploadKeepsRegistry ==
    [][FailedUpload =>
          LET cleaned == _cleanup_expired_sessions(
                             [sessions |-> sessions, conns |-> conns], now)
          IN  /\ sessions' = cleaned.sessions
              /\ \A c \in 1..Len(conns) : conns'[c] = cleaned.conns[c]]_vars

\* What holds of C29: a failed upload registers no session, and it leaves the
\* registry as the clean-up left it when that is below the cap; at the cap the
\* least recently used live session is deleted before the file is read.
FailedUploadRegistersNothing ==
    [][FailedUpload =>
          LET cleaned == _cleanup_expired_sessions(
                             [sessions |-> sessions, conns |-> conns], now)
          IN  /\ Range(sessions') \subseteq Range(cleaned.sessions)
              /\ Len(cleaned.sessions) < MaxSessions => sessions' = cleaned.sessions
              /\ Len(cleaned.sessions) >= MaxSessions =>
                    Len(sessions') = Len(cleaned.sessions) - 1]_vars

\* ========================================================================
\* DataService._get_session_connection under the worker threads of one run:
\* every statement is a step of its thread, there is no lock
\* ========================================================================
\* the threads of the executor
Workers == 1..PROBE_MAX_WORKERS

\* the session of the run is session 1, accessed within the TTL; each of the
\* other sessions was last accessed at time 0 (expired) or is as fresh
ProbeTime == SessionTTL + 1
ThreadRegistries ==
    { <<[sid |-> 1, connection |-> 1, last_accessed_at |-> 1],
        [sid |-> 2, connection |-> 2, last_accessed_at |-> a],
        [sid |-> 3, connection |-> 3, last_accessed_at |-> b]>> :
        a \in {0, 1}, b \in {0, 1} }

InitThread ==
    /\ th_sessions \in ThreadRegistries
    /\ th_conns = [c \in 1..3 |-> [open |-> TRUE, closes |-> 0]]
    /\ th_pc = [w \in Workers |-> "execute_query"]
    /\ th_expired = [w \in Workers |-> <<>>]
    /\ th_error = [w \in Workers |-> "none"]
    /\ NotThreadIdle

\* after one sid of the list: the next one, or line 328
after_cleanup(rest) == IF rest = <<>> THEN "lookup" ELSE "close"

\* lines 117-121: expired = [sid for sid, session in self.sessions.items() if ...]
ThreadScan(w) ==
    /\ th_pc[w] = "execute_query"
    /\ LET found == expired(th_sessions, ProbeTime)
           list == [k \in 1..Cardinality(found) |->
                      th_sessions[CHOOSE i \in found :
                                     Cardinality({ j \in found : j < i }) = k - 1].sid]
       IN  /\ th_expired' = [th_expired EXCEPT ![w] = list]
           /\ th_pc' = [th_pc EXCEPT ![w] = after_cleanup(list)]
    /\ UNCHANGED <<th_sessions, th_conns, th_error, notThread>>

\* lines 123-126: try: self.sessions[sid]["connection"].close(); a KeyError
\* for a sid another thread has deleted is swallowed
ThreadClose(w) ==
    /\ th_pc[w] = "close"
    /\ LET at == IndexOf(th_sessions, Head(th_expired[w]))
       IN  th_conns' = IF at = {} THEN th_conns
                       ELSE [th_conns EXCEPT
                               ![th_sessions[CHOOSE i \in at : TRUE].connection] =
                                  [open |-> FALSE, closes |-> @.closes + 1]]
    /\ th_pc' = [th_pc EXCEPT ![w] = "del"]
    /\ UNCHANGED <<th_sessions, th_expired, th_error, notThread>>

\* line 127: del self.sessions[sid], outside the try: a KeyError for a sid
\* another thread has deleted ends the probe
ThreadDel(w) ==
    /\ th_pc[w] = "del"
    /\ LET at == IndexOf(th_sessions, Head(th_expired[w]))
       IN  IF at = {}
           THEN /\ th_error' = [th_error EXCEPT ![w] = "KeyError"]
                /\ th_pc' = [th_pc EXCEPT ![w] = "raised"]
                /\ UNCHANGED <<th_sessions, th_expired>>
           ELSE /\ th_sessions' = DropIndexes(th_sessions, at)
                /\ th_expired' = [th_expired EXCEPT ![w] = Tail(@)]
                /\ th_pc' = [th_pc EXCEPT ![w] = after_cleanup(Tail(th_expired[w]))]
                /\ UNCHANGED th_error
    /\ UNCHANGED <<th_conns, notThread>>

\* lines 328-331: the session of the run is looked up and its access time set
ThreadLookup(w) ==
    /\ th_pc[w] = "lookup"
    /\ IF IndexOf(th_sessions, 1) = {}
       THEN /\ th_error' = [th_error EXCEPT ![w] = "not_found"]
            /\ th_pc' = [th_pc EXCEPT ![w] = "raised"]
            /\ UNCHANGED th_sessions
       ELSE /\ th_sessions' = Touch(th_sessions, 1, ProbeTime)
            /\ th_pc' = [th_pc EXCEPT ![w] = "returned"]
            /\ UNCHANGED th_error
    /\ UNCHANGED <<th_conns, th_expired, notThread>>

NextThread ==
    \E w \in Workers :
       \/ ThreadScan(w)
       \/ ThreadClose(w)
       \/ ThreadDel(w)
       \/ ThreadLookup(w)

SpecThread == InitThread /\ [][NextThread]_vars

\* ------------------------------------------------------------------------
\* Claims about the parallel probes
\* ------------------------------------------------------------------------
\* C26: under every interleaving of the probes' threads no session is closed
\* or deleted twice and no probe fails because of a registry update of
\* another probe's thread.
C26_ParallelProbesIndependent ==
    /\ \A c \in 1..Len(th_conns) : th_conns[c].closes <= 1
    /\ \A w \in Workers : th_error[w] = "none"

\* What holds of C26: the session of the run is never closed or deleted by a
\* probe of the run, and a thread that cleans up alone ends without error.
RunSessionSurvivesProbes ==
    /\ IndexOf(th_sessions, 1) # {}
    /\ th_conns[1].open
    /\ \A w \in Workers : th_error[w] # "not_found"
    /\ \A w \in Workers :
          (\A other \in Workers \ {w} : th_pc[other] = "execute_query")
             => th_error[w] = "none"

\* ========================================================================
\* main.py: draft_actions, approve_action, delete_session
\* runtime/actions.py: ActionRuntime.execute_action
\* ========================================================================
\* ai_service.py draft_actions, lines 635-661: only the four allowed types
\* pass, and all four must be present
Drafts ==
    { <<"sql_view", "dbt_model", "jira_ticket", "slack_summary">>,
      <<"slack_summary", "sql_view", "jira_ticket", "dbt_model", "sql_view">> }

\* runtime/actions.py lines 13-46: the artifact_type of the dry run, or
\* ValueError for a type that is none of the four
execute_action(action) ==
    CASE action.type = "sql_view"      -> "sql"
      [] action.type = "dbt_model"     -> "dbt_model"
      [] action.type = "jira_ticket"   -> "jira_payload"
      [] action.type = "slack_summary" -> "slack_message"
      [] OTHER                         -> "ValueError"

\* main.py line 521: the approval that finds the action executed
already_executed_never(action) == FALSE

already_executed(action) == action.status = "executed"

InitAction ==
    /\ ActionIdle
    /\ NotActionIdle

\* main.py lines 477-507: every draft is stored under a fresh uuid with
\* status pending_approval
DraftActions ==
    /\ \E drafts \in Drafts :
          /\ act_next + Len(drafts) - 1 <= MaxActionIds
          /\ act_store' = [id \in 1..MaxActionIds |->
                              IF id >= act_next /\ id < act_next + Len(drafts)
                              THEN [type |-> drafts[id - act_next + 1],
                                    status |-> "pending_approval",
                                    execution |-> "none"]
                              ELSE act_store[id]]
          /\ act_next' = act_next + Len(drafts)
    /\ UNCHANGED <<act_runs, act_approvals, act_resp, notAction>>

\* main.py lines 513-535. The handler is a coroutine without an await, so
\* the event loop runs it as one step.
ApproveAction(action_id) ==
    /\ act_approvals < MaxApprovals
    /\ act_approvals' = act_approvals + 1
    /\ LET action == act_store[action_id]
           execution == execute_action(action)
       IN  IF action.status = "absent"
           THEN /\ act_resp' = [kind |-> "404", action_id |-> action_id, before |-> "absent",
                                 ran |-> FALSE, execution |-> "none"]
                /\ UNCHANGED <<act_store, act_runs>>
           ELSE IF already_executed(action)
           THEN /\ act_resp' = [kind |-> "ok", action_id |-> action_id, before |-> action.status,
                                 ran |-> FALSE, execution |-> action.execution]
                /\ UNCHANGED <<act_store, act_runs>>
           ELSE /\ act_runs' = [act_runs EXCEPT ![action_id] = @ + 1]
                /\ IF execution = "ValueError"
                   THEN /\ act_resp' = [kind |-> "500", action_id |-> action_id,
                                         before |-> action.status,
                                         ran |-> TRUE, execution |-> "none"]
                        /\ UNCHANGED act_store
                   ELSE /\ act_store' = [act_store EXCEPT ![action_id] =
                                             [@ EXCEPT !.status = "executed",
                                                       !.execution = execution]]
                        /\ act_resp' = [kind |-> "ok", action_id |-> action_id,
                                         before |-> action.status,
                                         ran |-> TRUE, execution |-> execution]
    /\ UNCHANGED <<act_next, notAction>>

\* main.py lines 558-570: deleting the session drops its action workflow
DeleteActionSession ==
    /\ \E id \in 1..MaxActionIds : act_store[id] # NoAction
    /\ act_store' = [id \in 1..MaxActionIds |-> NoAction]
    /\ UNCHANGED <<act_next, act_runs, act_approvals, act_resp, notAction>>

NextAction ==
    \/ DraftActions
    \/ \E action_id \in 1..MaxActionIds : ApproveAction(action_id)
    \/ DeleteActionSession

SpecAction == InitAction /\ [][NextAction]_vars

\* the status of a stored action changes only from pending_approval to
\* executed; a record appears as pending_approval and goes with its session
StatusOnlyMovesToExecuted ==
    \A id \in 1..MaxActionIds :
        act_store'[id].status # act_store[id].status =>
            \/ act_store[id].status = "pending_approval" /\ act_store'[id].status = "executed"
            \/ act_store[id].status = "absent" /\ act_store'[id].status = "pending_approval"
            \/ act_store'[id].status = "absent"

ApprovalsRunAtMostOnce ==
    /\ \A id \in 1..MaxActionIds : act_runs[id] <= 1
    /\ act_resp.kind = "ok" /\ act_resp.before = "executed" =>
          /\ ~ act_resp.ran
          /\ act_store[act_resp.action_id].status = "absent"
                \/ act_resp.execution = act_store[act_resp.action_id].execution
    /\ act_resp.kind = "500" =>
          act_store[act_resp.action_id].status \in {"pending_approval", "absent"}

\* C30: over any sequence of approve requests execute_action runs at most once
\* for a drafted action: the status only moves from pending_approval to
\* executed, a repeated approval returns the stored execution without running
\* it again, and a failed execution leaves the status pending_approval
C30_ExecutesAtMostOnce == [] ApprovalsRunAtMostOnce /\ [][StatusOnlyMovesToExecuted]_vars

\* an action was executed once and then approved again
C30_Witness ==
    /\ act_resp.kind = "ok" /\ act_resp.before = "executed" /\ ~ act_resp.ran
    /\ act_runs[act_resp.action_id] = 1
    /\ act_store[act_resp.action_id].status = "executed"
    /\ act_resp.execution = "jira_payload"

====
